---- MODULE Spec2Model ----
(***************************************************************************)
(* Model of the event-driven credit-offer pipeline of the empathic credit  *)
(* system: the synchronous credit decision / acceptance endpoints of the   *)
(* user-and-credit-service and the asynchronous credit-application-worker. *)
(*                                                                         *)
(* Time is counted in seconds.  Money is counted in cents, risk scores in  *)
(* ten-thousandths, interest rates in hundredths of a percent.             *)
(***************************************************************************)
EXTENDS Integers, Sequences, FiniteSets, TLC

VARIABLES
    now,            \* the clock shared by NOW() of the store and utcnow()
    credit_limits,  \* table credit_limits: offer id -> row, or NoRow
    msgs,           \* stream behind credit.offers.approved, in publish order
    handler,        \* per worker replica: position inside process_message
    notifications,  \* per user: NotificationEvents published on user.notifications
    activations,    \* per offer: how many conditional updates returned UPDATE 1
    notifiedOffer,  \* per offer: notifications published by the handler that activated it
    lastResp,       \* HTTP status of the last answer of the accept endpoint
    transactions,   \* table transactions, in insertion order
    emotional_events_summary,  \* table emotional_events_summary, a set of rows
    featCache,      \* cache entries user_features:{user_id}
    mlCache,        \* cache entries ml_result:{user_id}
    cb,             \* ml_service_breaker: state, failure counter, opened_at
    consecFails,    \* scorer network calls that failed since the last successful one
    failedAt,       \* when the latest of those calls failed, -1 if there is none
    anResp,         \* the answer of the last credit analysis
    events,         \* per payload: messages ready, nak-delayed and acked on its subject
    ingest,         \* per ingestion worker replica: position inside process_message
    storeUp,        \* whether the relational store accepts connections
    upserts,        \* per payload: store writes executed for it
    gateway         \* API gateway: the last request, its answer, the requests forwarded

acceptVars == <<msgs, handler, notifications, activations, notifiedOffer, lastResp>>

analysisVars == <<transactions, emotional_events_summary, featCache, mlCache,
                  cb, consecFails, failedAt, anResp>>

ingestVars == <<events, ingest, storeUp, upserts>>

vars == <<now, credit_limits, acceptVars, analysisVars, ingestVars, gateway>>

----------------------------------------------------------------------------
(* Bounds of the model *)

MaxNow == 10
MaxMsgs == 2

MaxClock == 300
MaxConsecFails == 5

MaxEvents == 3
MaxAckEvents == 2
MaxAckFailures == 1

MaxForwards == 2

(* Program constants *)

NakDelay == 10
CacheTTL == 300
FailMax == 5
ResetTimeout == 30
OfferDays == 7
DenyAbove == 6000
LimitFloor == 1000

Day == 24 * 60 * 60
Scores == {1237, 3000, 6000, 7500}

Users == {"u1", "u2"}
AnalysisUsers == {"u1"}
OfferIds == {"o1", "o2"}
Replicas == {"w1", "w2"}

NoRow == [status |-> "none"]

----------------------------------------------------------------------------
(* Relational store: credit_limits *)

Max(a, b) == IF a >= b THEN a ELSE b

\* n / d rounded to the nearest integer, ties to the even one (round()).
RoundDiv(n, d) ==
    LET q == n \div d
        r == n % d
    IN  IF 2 * r < d THEN q
        ELSE IF 2 * r > d THEN q + 1
        ELSE IF q % 2 = 0 THEN q ELSE q + 1

CreditLimit_Halved(risk) ==
    RoundDiv(Max(LimitFloor * 10000, (10000 - risk) * 5000), 100)

\* round(max(1000, (1 - risk_score) * 10000), 2), in cents
CreditLimit(risk) == RoundDiv(Max(LimitFloor * 10000, (10000 - risk) * 10000), 100)

InterestRate_Truncated(risk) == (50000 + risk * 15) \div 100

\* round(5.0 + (risk_score * 15), 2), in hundredths of a percent
InterestRate(risk) == RoundDiv(50000 + risk * 15, 100)

\* The row save_credit_offer inserts.
OfferedRow(u, risk, exp) ==
    [status |-> "offered", user_id |-> u, expires_at |-> exp,
     credit_limit |-> CreditLimit(risk), interest_rate |-> InterestRate(risk)]

save_credit_offer(tbl, o, u, risk, exp) ==
    [tbl EXCEPT ![o] = OfferedRow(u, risk, exp)]

MatchesActivation_AnyUser(tbl, o, u) ==
    /\ tbl[o] # NoRow
    /\ tbl[o].status = "offered"

MatchesActivation_NoStatus(tbl, o, u) ==
    /\ tbl[o] # NoRow
    /\ tbl[o].user_id = u

\* WHERE id = $1 AND user_id = $2 AND status = 'offered'
MatchesActivation(tbl, o, u) ==
    /\ tbl[o] # NoRow
    /\ tbl[o].user_id = u
    /\ tbl[o].status = "offered"

\* Number of rows the worker's conditional UPDATE affects.
ActivationRows(tbl, o, u) == IF MatchesActivation(tbl, o, u) THEN 1 ELSE 0

activate_credit_offer_Accepted(tbl, o, u) ==
    IF MatchesActivation(tbl, o, u)
    THEN [tbl EXCEPT ![o].status = "accepted"]
    ELSE tbl

\* The table after the worker's conditional UPDATE.
activate_credit_offer(tbl, o, u) ==
    IF MatchesActivation(tbl, o, u)
    THEN [tbl EXCEPT ![o].status = "active"]
    ELSE tbl

validate_offer_for_acceptance_NoExpiry(tbl, o, u, t) ==
    /\ tbl[o] # NoRow
    /\ tbl[o].user_id = u
    /\ tbl[o].status = "offered"

\* WHERE id = $1 AND user_id = $2 AND status = 'offered' AND expires_at > NOW()
validate_offer_for_acceptance(tbl, o, u, t) ==
    /\ tbl[o] # NoRow
    /\ tbl[o].user_id = u
    /\ tbl[o].status = "offered"
    /\ tbl[o].expires_at > t

----------------------------------------------------------------------------
(* Bus: the stream of AcceptanceRequest messages *)

Msg(o, u, wf) ==
    [wf |-> wf, offerId |-> o, userId |-> u, st |-> "ready", notBefore |-> 0]

\* A payload that json.loads or CreditOfferAcceptedEvent.model_validate rejects.
Malformed == Msg("o1", "u1", FALSE)

Idle == [pc |-> "idle", msg |-> 0, rows |-> -1]

NoEntry == [exp |-> -1]

BreakerClosed == [state |-> "closed", counter |-> 0, opened_at |-> -1]

\* The feature vector of an analysis that did not get one.
NoFeatures ==
    [transaction_count_30d |-> -1, avg_transaction_value_30d |-> <<0, 1>>,
     avg_positivity_7d |-> <<0, 1>>, stress_events_30d |-> -1]

NoAnalysis == [risk |-> -1, expires_at |-> -1, credit_limit |-> -1, interest_rate |-> -1,
               code |-> 0, detail |-> "", approved |-> FALSE,
               offer |-> "", called |-> FALSE, scorer |-> "none",
               features |-> NoFeatures, reads |-> 0]

----------------------------------------------------------------------------
(* Bus: the payloads on user.emotions.topic and transactions.topic.          *)
(* Metrics are rationals <<n, d>>; the worker's EmotionMetrics takes any      *)
(* float, so a payload on the subject may carry a metric outside [0, 1].     *)
(* A timestamp is the text before its first "T": whether it reads as         *)
(* %Y-%m-%d, and the day it then names.                                      *)

EmotionSubject == "user.emotions.topic"

TransactionSubject == "transactions.topic"

Timestamp(d) == [is_date |-> TRUE, date |-> d]

NotADate == [is_date |-> FALSE, date |-> 0]

NoMetrics == <<<<0, 1>>, <<0, 1>>, <<0, 1>>>>

\* A payload that parses and validates as EmotionEvent.
EmotionEvent(u, ts, m) ==
    [user_id |-> u, subject |-> EmotionSubject, kind |-> "event",
     timestamp |-> ts, metrics |-> m, amount |-> 0]

\* A payload that parses and validates as TransactionEvent.
TransactionEvent(u, a) ==
    [user_id |-> u, subject |-> TransactionSubject, kind |-> "event",
     timestamp |-> NotADate, metrics |-> NoMetrics, amount |-> a]

\* A payload json.loads rejects ("badjson") or model_validate rejects
\* ("badschema").
Rejected(subject, kind) ==
    [user_id |-> "", subject |-> subject, kind |-> kind, timestamp |-> NotADate,
     metrics |-> NoMetrics, amount |-> 0]

EmotionPayloads ==
    { EmotionEvent("u1", Timestamp(0), <<<<1, 1>>, <<0, 1>>, <<1, 2>>>>),
      EmotionEvent("u1", Timestamp(0), <<<<0, 1>>, <<1, 2>>, <<1, 1>>>>),
      EmotionEvent("u1", Timestamp(1), <<<<3, 2>>, <<0, 1>>, <<1, 2>>>>),
      EmotionEvent("u2", Timestamp(0), <<<<1, 1>>, <<0, 1>>, <<1, 2>>>>),
      EmotionEvent("u1", NotADate, <<<<1, 1>>, <<0, 1>>, <<1, 2>>>>),
      Rejected(EmotionSubject, "badjson"),
      Rejected(EmotionSubject, "badschema") }

\* The worker's TransactionEvent declares amount as a plain float: a payload
\* on the subject may carry any amount.
TransactionPayloads ==
    { TransactionEvent("u1", 12345), TransactionEvent("u1", 0 - 500),
      Rejected(TransactionSubject, "badschema") }

EventPool == EmotionPayloads \cup TransactionPayloads

IngestReplicas == {"e1", "e2", "t1"}

SubjectOf(r) == IF r = "t1" THEN TransactionSubject ELSE EmotionSubject

\* queued: accepted by an ingestion endpoint, the background publish pending;
\* lost: the background publish raised.
NoMessages == [ready |-> 0, delayed |-> 0, acked |-> 0, queued |-> 0, lost |-> 0]

IngestIdle == [pc |-> "idle", ev |-> Rejected("", "none")]

\* No ingestion message exists, the ingestion workers idle, the store is up.
InitIngest ==
    /\ events = [p \in EventPool |-> NoMessages]
    /\ ingest = [r \in IngestReplicas |-> IngestIdle]
    /\ storeUp = TRUE
    /\ upserts = [p \in EventPool |-> 0]

----------------------------------------------------------------------------
(* API gateway: requests and credentials.  A path is the list of the pieces  *)
(* it is cut into at the ends of the route prefixes, so that one string      *)
(* starts with another exactly when its list does.                           *)

SECRET_KEY == "SECRET_KEY"

INTERNAL_SERVICE_API_KEY == "INTERNAL_SERVICE_API_KEY"

\* An Authorization header: its scheme, and what follows the scheme.
Authorization(scheme, form, key, expired) ==
    [scheme |-> scheme, form |-> form, key |-> key, expired |-> expired]

NoAuthorization == Authorization("", "", "", FALSE)

\* No header; another scheme; a bearer token that is no JWT (the secret
\* itself); a JWT signed with another key; an expired JWT; a valid JWT.
Authorizations ==
    { NoAuthorization,
      Authorization("Basic", "text", "", FALSE),
      Authorization("Bearer", "text", SECRET_KEY, FALSE),
      Authorization("Bearer", "jwt", "another key", FALSE),
      Authorization("Bearer", "jwt", SECRET_KEY, TRUE),
      Authorization("bearer", "jwt", SECRET_KEY, FALSE) }

\* X-Internal-Key: absent, wrong, right.
InternalKeys == {"", "wrong", INTERNAL_SERVICE_API_KEY}

EmotionPath == <<"/v1/emotions/stream">>

GatewayPaths ==
    { EmotionPath,
      <<"/v1/transactions">>,
      <<"/v1/users", "/u1/credit-analysis">>,
      <<"/v1/elsewhere">> }

Methods == {"POST", "GET"}

Services == {"emotion_service", "transaction_service", "user_credit_service"}

Request(m, path, auth, key) ==
    [path |-> path, method |-> m, authorization |-> auth, internal_key |-> key]

\* What the downstream service does with a forwarded request: the status it
\* answers, or Unreachable when the connection fails (httpx.RequestError).
Unreachable == -1

Downstream == {202, 500, Unreachable}

GatewayIdle ==
    [code |-> 0, req |-> Request("", <<>>, NoAuthorization, ""),
     forwarded |-> [s \in Services |-> 0]]

----------------------------------------------------------------------------
(* Initial states: no message, idle replicas, and a credit_limits table     *)
(* holding offers that earlier analyses stored (status 'offered').          *)

InitTables ==
    { [o \in OfferIds |-> IF o = "o1" THEN OfferedRow("u1", 3000, e1) ELSE r2] :
        e1 \in {0, 10}, r2 \in {NoRow, OfferedRow("u2", 6000, 10)} }

Init ==
    /\ now = 0
    /\ credit_limits \in InitTables
    /\ msgs = <<>>
    /\ handler = [r \in Replicas |-> Idle]
    /\ notifications = [u \in Users |-> 0]
    /\ activations = [o \in OfferIds |-> 0]
    /\ notifiedOffer = [o \in OfferIds |-> 0]
    /\ lastResp = 0
    /\ transactions = <<>>
    /\ emotional_events_summary = {}
    /\ featCache = [u \in Users |-> NoEntry]
    /\ mlCache = [u \in Users |-> NoEntry]
    /\ cb = BreakerClosed
    /\ consecFails = 0
    /\ failedAt = -1
    /\ anResp = NoAnalysis
    /\ InitIngest
    /\ gateway = GatewayIdle

----------------------------------------------------------------------------
(* Time *)

Tick ==
    /\ now + NakDelay <= MaxNow
    /\ now' = now + NakDelay
    /\ UNCHANGED <<gateway, credit_limits, msgs, handler, notifications, activations,
                   notifiedOffer, lastResp, analysisVars, ingestVars>>

----------------------------------------------------------------------------
(* POST /v1/credit-offers/{offer_id}/accept; lastResp is the HTTP status *)

\* Validation fails: 404, nothing is published.
AcceptNotFound(o, u) ==
    /\ ~validate_offer_for_acceptance(credit_limits, o, u, now)
    /\ lastResp' = 404
    /\ UNCHANGED <<gateway, now, credit_limits, msgs, handler, notifications,
                   activations, notifiedOffer, analysisVars, ingestVars>>

AcceptPublished_Marks(o, u) ==
    /\ Len(msgs) < MaxMsgs
    /\ validate_offer_for_acceptance(credit_limits, o, u, now)
    /\ msgs' = Append(msgs, Msg(o, credit_limits[o].user_id, TRUE))
    /\ credit_limits' = [credit_limits EXCEPT ![o].status = "active"]
    /\ lastResp' = 202
    /\ UNCHANGED <<gateway, now, handler, notifications, activations, notifiedOffer,
                   analysisVars, ingestVars>>

\* Validation succeeds and the event is published: 202.
AcceptPublished(o, u) ==
    /\ Len(msgs) < MaxMsgs
    /\ validate_offer_for_acceptance(credit_limits, o, u, now)
    /\ msgs' = Append(msgs, Msg(o, credit_limits[o].user_id, TRUE))
    /\ lastResp' = 202
    /\ UNCHANGED <<gateway, now, credit_limits, handler, notifications, activations,
                   notifiedOffer, analysisVars, ingestVars>>

\* Validation succeeds but the publish raises: the exception is not caught,
\* the caller gets a 500 and no event exists.
AcceptPublishFails(o, u) ==
    /\ validate_offer_for_acceptance(credit_limits, o, u, now)
    /\ lastResp' = 500
    /\ UNCHANGED <<gateway, now, credit_limits, msgs, handler, notifications,
                   activations, notifiedOffer, analysisVars, ingestVars>>

accept_credit_offer(o, u) ==
    \/ AcceptNotFound(o, u)
    \/ AcceptPublished(o, u)
    \/ AcceptPublishFails(o, u)

----------------------------------------------------------------------------
(* Any other publisher on credit.offers.approved: the worker consumes        *)
(* whatever the subject carries.  These are the payloads the accept         *)
(* endpoint would not publish: a request naming an offer the user does not  *)
(* own (or that does not exist), and a payload that fails validation.       *)

ForeignPayloads == {Msg("o1", "u2", TRUE), Msg("o2", "u1", TRUE), Malformed}

PublishRaw(m) ==
    /\ Len(msgs) < MaxMsgs
    /\ msgs' = Append(msgs, m)
    /\ UNCHANGED <<gateway, now, credit_limits, handler, notifications, activations,
                   notifiedOffer, lastResp, analysisVars, ingestVars>>

----------------------------------------------------------------------------
(* credit-application-worker: process_message, one action per await *)

\* The broker hands message i to an idle replica; the handler decodes and
\* validates it.  A payload that fails json.loads / model_validate raises and
\* goes to the except branch.
Deliver(r, i) ==
    /\ handler[r].pc = "idle"
    /\ msgs[i].st = "ready"
    /\ msgs[i].notBefore <= now
    /\ msgs' = [msgs EXCEPT ![i].st = "inflight", ![i].notBefore = 0]
    /\ handler' = [handler EXCEPT ![r] =
                      [pc |-> IF msgs[i].wf THEN "update" ELSE "nak",
                       msg |-> i, rows |-> -1]]
    /\ UNCHANGED <<gateway, now, credit_limits, notifications, activations,
                   notifiedOffer, lastResp, analysisVars, ingestVars>>

\* if was_activated: send the notification, then ack; otherwise ack at once.
AfterUpdate_Always(n) == "notify"

AfterUpdate(n) == IF n = 1 THEN "notify" ELSE "ack"

\* async with db_pool.acquire(): was_activated = await activate_credit_offer(...)
Activate(r) ==
    /\ handler[r].pc = "update"
    /\ LET m == msgs[handler[r].msg]
           n == ActivationRows(credit_limits, m.offerId, m.userId)
       IN /\ credit_limits' = activate_credit_offer(credit_limits, m.offerId, m.userId)
          /\ activations' = [activations EXCEPT ![m.offerId] = @ + n]
          /\ handler' = [handler EXCEPT ![r].rows = n,
                                        ![r].pc = AfterUpdate(n)]
    /\ UNCHANGED <<gateway, now, msgs, notifications, notifiedOffer, lastResp, analysisVars, ingestVars>>

\* The store is unavailable: acquire / execute raises.
ActivateFails(r) ==
    /\ handler[r].pc = "update"
    /\ handler' = [handler EXCEPT ![r].pc = "nak"]
    /\ UNCHANGED <<gateway, now, credit_limits, msgs, notifications, activations,
                   notifiedOffer, lastResp, analysisVars, ingestVars>>

\* if was_activated: await send_activation_notification(nats_conn, event.user_id)
send_activation_notification(r) ==
    /\ handler[r].pc = "notify"
    /\ LET m == msgs[handler[r].msg]
       IN /\ notifications' = [notifications EXCEPT ![m.userId] = @ + 1]
          /\ notifiedOffer' = [notifiedOffer EXCEPT ![m.offerId] = @ + 1]
    /\ handler' = [handler EXCEPT ![r].pc = "ack"]
    /\ UNCHANGED <<gateway, now, credit_limits, msgs, activations, lastResp, analysisVars, ingestVars>>

NotifyFails_Rollback(r) ==
    /\ handler[r].pc = "notify"
    /\ handler' = [handler EXCEPT ![r].pc = "nak"]
    /\ credit_limits' =
           [credit_limits EXCEPT ![msgs[handler[r].msg].offerId].status = "offered"]
    /\ UNCHANGED <<gateway, now, msgs, notifications, activations,
                   notifiedOffer, lastResp, analysisVars, ingestVars>>

\* The notification publish raises.  The update ran outside any transaction
\* (conn.execute on an acquired connection commits at once), so the exception
\* undoes nothing.
NotifyFails(r) ==
    /\ handler[r].pc = "notify"
    /\ handler' = [handler EXCEPT ![r].pc = "nak"]
    /\ UNCHANGED <<gateway, now, credit_limits, msgs, notifications, activations,
                   notifiedOffer, lastResp, analysisVars, ingestVars>>

\* await msg.ack()
Ack(r) ==
    /\ handler[r].pc = "ack"
    /\ msgs' = [msgs EXCEPT ![handler[r].msg].st = "acked"]
    /\ handler' = [handler EXCEPT ![r] = Idle]
    /\ UNCHANGED <<gateway, now, credit_limits, notifications, activations,
                   notifiedOffer, lastResp, analysisVars, ingestVars>>

\* except Exception: await msg.nak(delay=10)
Nak(r) ==
    /\ handler[r].pc = "nak"
    /\ msgs' = [msgs EXCEPT ![handler[r].msg].st = "ready",
                            ![handler[r].msg].notBefore = now + NakDelay]
    /\ handler' = [handler EXCEPT ![r] = Idle]
    /\ UNCHANGED <<gateway, now, credit_limits, notifications, activations,
                   notifiedOffer, lastResp, analysisVars, ingestVars>>

process_message(r) ==
    \/ \E i \in 1..Len(msgs) : Deliver(r, i)
    \/ Activate(r)
    \/ ActivateFails(r)
    \/ send_activation_notification(r)
    \/ NotifyFails(r)
    \/ Ack(r)
    \/ Nak(r)

----------------------------------------------------------------------------
(* Credit Decision Service: feature assembly from the store *)

RECURSIVE GCD(_, _)
GCD(a, b) == IF b = 0 THEN a ELSE GCD(b, a % b)

\* The rational n / d in lowest terms.
Rat(n, d) == LET g == GCD(n, d) IN IF g = 0 THEN <<0, 1>> ELSE <<n \div g, d \div g>>

RECURSIVE SumAmount(_)
SumAmount(rows) ==
    IF rows = <<>> THEN 0 ELSE Head(rows).amount + SumAmount(Tail(rows))

RatAdd(a, b) == Rat(a[1] * b[2] + b[1] * a[2], a[2] * b[2])

RatTimes(a, k) == Rat(a[1] * k, a[2])

RatOver(a, k) == Rat(a[1], a[2] * k)

RECURSIVE SumPositivity(_)
SumPositivity(rows) ==
    IF rows = {} THEN <<0, 1>>
    ELSE LET r == CHOOSE x \in rows : TRUE
         IN  RatAdd(r.avg_positivity_score, SumPositivity(rows \ {r}))

RECURSIVE SumEventCount(_)
SumEventCount(rows) ==
    IF rows = {} THEN 0
    ELSE LET r == CHOOSE x \in rows : TRUE
         IN  r.event_count + SumEventCount(rows \ {r})

InWindow(row, u, t) == row.user_id = u /\ row.created_at >= t - 30 * Day

get_user_features(tx, es, u, t) ==
    LET emo  == {r \in es : r.user_id = u /\ r.summary_date >= t - 7 * Day}
        txs  == SelectSeq(tx, LAMBDA r : InWindow(r, u, t))
    IN  [transaction_count_30d |-> Len(txs),
         avg_transaction_value_30d |->
             IF Len(txs) = 0 THEN <<0, 1>> ELSE Rat(SumAmount(txs), Len(txs)),
         avg_positivity_7d |->
             IF emo = {} THEN <<1, 2>>
             ELSE RatOver(SumPositivity(emo), Cardinality(emo)),
         stress_events_30d |-> IF emo = {} THEN 0 ELSE SumEventCount(emo)]

----------------------------------------------------------------------------
(* Cache-aside store: get and setex *)

CacheHit_NoExpiry(cache, u, t) == cache[u] # NoEntry

CacheHit(cache, u, t) == cache[u] # NoEntry /\ cache[u].exp > t

CacheSet(cache, u, v, t) == [cache EXCEPT ![u] = [exp |-> t + CacheTTL, val |-> v]]

----------------------------------------------------------------------------
(* Scorer client behind ml_service_breaker = CircuitBreaker(5, 30)         *)

\* What one call of the scorer does: a response carrying a risk score, a
\* response without one, a connection error, a timeout (both RequestError),
\* or an error status (raise_for_status, not a RequestError).
ScorerOutcomes ==
    {[risk |-> r, kind |-> "ok"] : r \in Scores} \cup
    {[risk |-> -1, kind |-> k] : k \in {"norisk", "neterr", "timeout", "httperr"}}

ScorerFailed(so) == so.kind \in {"neterr", "timeout", "httperr"}

\* The breaker rejects a call while it is open and the cool-down runs.
BreakerRejects(c, t) == c.state = "open" /\ t < c.opened_at + ResetTimeout

\* The breaker after a call it let through, given whether the guarded call
\* raised.  An open breaker whose cool-down has elapsed is half-open here.
BreakerAfterCall(c, t, raised) ==
    LET halfOpen == c.state \in {"open", "half-open"}
    IN  IF ~raised THEN BreakerClosed
        ELSE IF halfOpen \/ c.counter + 1 >= FailMax
             THEN [state |-> "open", counter |-> c.counter + 1, opened_at |-> t]
             ELSE [c EXCEPT !.counter = @ + 1]

\* The breaker decorates an async def and guards it with its synchronous
\* call(): the guarded call is the invocation of the coroutine function,
\* which returns the coroutine object without running its body.  The body
\* (the HTTP request) runs when analyze_credit awaits that object, after the
\* breaker has recorded the call.  So the breaker never sees the request's
\* exception, whatever the scorer does.
GuardedCallRaises(so) == FALSE

----------------------------------------------------------------------------
(* POST /v1/users/{user_id}/credit-analysis                                *)
(*   cf  which of the four cache operations raise                          *)
(*   so  what the scorer does if it is called                              *)
(*   db  whether the store is reachable                                    *)

CacheDown == [getF |-> TRUE, setF |-> TRUE, getM |-> TRUE, setM |-> TRUE]

CacheFine == [getF |-> FALSE, setF |-> FALSE, getM |-> FALSE, setM |-> FALSE]

\* The cache works, is unreachable, or fails in one single operation.
CacheFaults ==
    {CacheFine, CacheDown} \cup
    {[CacheFine EXCEPT ![k] = TRUE] : k \in {"getF", "setF", "getM", "setM"}}

Answer(code, detail, approved, risk, called) ==
    [risk |-> risk, expires_at |-> -1, credit_limit |-> -1, interest_rate |-> -1,
     code |-> code, detail |-> detail, approved |-> approved,
     offer |-> "", called |-> called, scorer |-> "none",
     features |-> NoFeatures, reads |-> 0]

\* As FeatureStep, without the except Exception branch of lines 40-43: an
\* error of the cache ends the call.
FeatureStep_NoFallback(fc, tx, es, u, cf, db, t) ==
    LET hit == ~cf.getF /\ CacheHit(fc, u, t)
        fv  == get_user_features(tx, es, u, t)
    IN  IF cf.getF THEN [reads |-> 0, raised |-> TRUE, fc |-> fc, fv |-> NoFeatures]
        ELSE IF hit THEN [reads |-> 0, raised |-> FALSE, fc |-> fc, fv |-> fc[u].val]
        ELSE IF ~db \/ cf.setF
             THEN [reads |-> 1, raised |-> TRUE, fc |-> fc, fv |-> NoFeatures]
        ELSE [reads |-> 1, raised |-> FALSE, fc |-> CacheSet(fc, u, fv, t), fv |-> fv]

\* Lines 27-43: the feature vector, or "raise" when the store read raises.
\* reads: the calls of get_user_features made.  A cache get that raises goes
\* to the fallback read of line 43; a miss reads the store at line 38, and
\* that read or the setex raising leads to the fallback read as well.
FeatureStep(fc, tx, es, u, cf, db, t) ==
    LET hit == ~cf.getF /\ CacheHit(fc, u, t)
        fv  == get_user_features(tx, es, u, t)
    IN  IF hit THEN [reads |-> 0, raised |-> FALSE, fc |-> fc, fv |-> fc[u].val]
        ELSE IF ~db THEN [reads |-> IF cf.getF THEN 1 ELSE 2, raised |-> TRUE, fc |-> fc,
                          fv |-> NoFeatures]
        ELSE [reads |-> IF ~cf.getF /\ cf.setF THEN 2 ELSE 1, raised |-> FALSE,
              fc |-> IF ~cf.getF /\ ~cf.setF THEN CacheSet(fc, u, fv, t) ELSE fc,
              fv |-> fv]

\* As ScoreStep, with a default score in place of a scorer that timed out.
ScoreStep_GuessOnTimeout(mc, c, u, cf, so, t) ==
    IF cf.getM
    THEN [cb |-> c, risk |-> -1, called |-> FALSE, kind |-> "internal", mc |-> mc]
    ELSE IF CacheHit(mc, u, t)
    THEN [cb |-> c, risk |-> mc[u].val, called |-> FALSE, kind |-> "score", mc |-> mc]
    ELSE IF BreakerRejects(c, t)
    THEN [cb |-> c, risk |-> -1, called |-> FALSE, kind |-> "overloaded", mc |-> mc]
    ELSE IF so.kind = "neterr"
    THEN [cb |-> c, risk |-> -1, called |-> TRUE, kind |-> "unavailable", mc |-> mc]
    ELSE IF so.kind = "timeout"
    THEN [cb |-> c, risk |-> 3000, called |-> TRUE, kind |-> "score", mc |-> mc]
    ELSE IF so.kind = "httperr" \/ cf.setM
    THEN [cb |-> c, risk |-> -1, called |-> TRUE, kind |-> "internal", mc |-> mc]
    ELSE [cb |-> c, risk |-> so.risk,
          called |-> TRUE, kind |-> "score", mc |-> CacheSet(mc, u, so.risk, t)]

\* As ScoreStep, without the look-up of ml_result:{user_id}.
ScoreStep_NoCacheRead(mc, c, u, cf, so, t) ==
    IF BreakerRejects(c, t)
    THEN [cb |-> c, risk |-> -1, called |-> FALSE, kind |-> "overloaded", mc |-> mc]
    ELSE IF so.kind \in {"neterr", "timeout"}
    THEN [cb |-> c, risk |-> -1, called |-> TRUE, kind |-> "unavailable", mc |-> mc]
    ELSE IF so.kind = "httperr" \/ cf.setM
    THEN [cb |-> c, risk |-> -1, called |-> TRUE, kind |-> "internal", mc |-> mc]
    ELSE [cb |-> c, risk |-> so.risk,
          called |-> TRUE, kind |-> "score", mc |-> CacheSet(mc, u, so.risk, t)]

\* As ScoreStep, without the except httpx.RequestError branch.
ScoreStep_NoRequestError(mc, c, u, cf, so, t) ==
    IF cf.getM
    THEN [cb |-> c, risk |-> -1, called |-> FALSE, kind |-> "internal", mc |-> mc]
    ELSE IF CacheHit(mc, u, t)
    THEN [cb |-> c, risk |-> mc[u].val, called |-> FALSE, kind |-> "score", mc |-> mc]
    ELSE IF BreakerRejects(c, t)
    THEN [cb |-> c, risk |-> -1, called |-> FALSE, kind |-> "overloaded", mc |-> mc]
    ELSE IF ScorerFailed(so) \/ cf.setM
    THEN [cb |-> c, risk |-> -1, called |-> TRUE, kind |-> "internal", mc |-> mc]
    ELSE [cb |-> c, risk |-> so.risk,
          called |-> TRUE, kind |-> "score", mc |-> CacheSet(mc, u, so.risk, t)]

\* Lines 44-68: the scorer result, from the cache or through the breaker.
\* kind: "score" (ml_result obtained) or the error signal raised.
ScoreStep(mc, c, u, cf, so, t) ==
    IF cf.getM
    THEN [cb |-> c, risk |-> -1, called |-> FALSE, kind |-> "internal", mc |-> mc]
    ELSE IF CacheHit(mc, u, t)
    THEN [cb |-> c, risk |-> mc[u].val, called |-> FALSE, kind |-> "score", mc |-> mc]
    ELSE IF BreakerRejects(c, t)
    THEN [cb |-> c, risk |-> -1, called |-> FALSE, kind |-> "overloaded", mc |-> mc]
    ELSE LET c1 == BreakerAfterCall(c, t, GuardedCallRaises(so))
         IN  IF GuardedCallRaises(so)
             THEN [cb |-> c1, risk |-> -1, called |-> TRUE,
                   kind |-> IF c1.state = "open" THEN "overloaded" ELSE "unavailable",
                   mc |-> mc]
             ELSE IF so.kind \in {"neterr", "timeout"}
             THEN [cb |-> c1, risk |-> -1, called |-> TRUE, kind |-> "unavailable",
                   mc |-> mc]
             ELSE IF so.kind = "httperr" \/ cf.setM
             THEN [cb |-> c1, risk |-> -1, called |-> TRUE, kind |-> "internal",
                   mc |-> mc]
             ELSE [cb |-> c1, risk |-> so.risk,
                   called |-> TRUE, kind |-> "score", mc |-> CacheSet(mc, u, so.risk, t)]

Denied_AboveNine(risk) == risk > 9000

\* if risk_score > 0.6: the analysis is denied.
Denied(risk) == risk > DenyAbove

\* The answer and the new state of one analysis; oid is the uuid4() drawn
\* for the offer.  The answer's risk is the risk score the call obtained, -1
\* if it obtained none.
AnalyzeOutcome(tbl, fc, mc, c, tx, es, u, cf, so, db, oid, t) ==
    LET f == FeatureStep(fc, tx, es, u, cf, db, t)
        m == ScoreStep(mc, c, u, cf, so, t)
        same == [cb |-> m.cb, tbl |-> tbl, reads |-> f.reads, fc |-> f.fc,
                 fv |-> f.fv, mc |-> m.mc]
    IN  IF f.raised
        THEN [cb |-> c,
              tbl |-> tbl, reads |-> f.reads, fc |-> fc, fv |-> f.fv,
              mc |-> mc, resp |-> Answer(500, "unhandled", FALSE, -1, FALSE)]
        ELSE IF m.kind = "overloaded"
        THEN [resp |-> Answer(503, "overloaded", FALSE, -1, m.called)] @@ same
        ELSE IF m.kind = "unavailable"
        THEN [resp |-> Answer(503, "unavailable", FALSE, -1, m.called)] @@ same
        ELSE IF m.kind = "internal"
        THEN [resp |-> Answer(500, "internal", FALSE, -1, m.called)] @@ same
        ELSE IF m.risk = -1
        THEN [resp |-> Answer(500, "invalid", FALSE, -1, m.called)] @@ same
        ELSE IF Denied(m.risk)
        THEN [resp |-> Answer(200, "High risk score.", FALSE, m.risk, m.called)] @@ same
        ELSE IF ~db
        THEN [resp |-> Answer(500, "unhandled", FALSE, m.risk, m.called)] @@ same
        ELSE [cb |-> m.cb,
              tbl |-> save_credit_offer(tbl, oid, u, m.risk, t + OfferDays * Day),
              reads |-> f.reads, fc |-> f.fc, fv |-> f.fv, mc |-> m.mc,
              resp |-> [Answer(200, "", TRUE, m.risk, m.called) EXCEPT
                           !.offer = oid,
                           !.credit_limit = CreditLimit(m.risk),
                           !.interest_rate = InterestRate(m.risk),
                           !.expires_at = t + OfferDays * Day]]

\* uuid4() never repeats an id: the offer gets an id no row has.  Ids carry
\* no meaning, so the first unused one stands for the drawn id.
FreshIds(tbl) ==
    LET free == {o \in OfferIds : tbl[o] = NoRow}
    IN  IF "o1" \in free THEN {"o1"} ELSE free

analyze_credit(u, cf, so, db, oid) ==
    /\ oid \in FreshIds(credit_limits)
    /\ ScorerFailed(so) => consecFails < MaxConsecFails
    /\ \E out \in {AnalyzeOutcome(credit_limits, featCache, mlCache, cb, transactions,
                                  emotional_events_summary, u, cf, so, db, oid, now)} :
          /\ anResp' = [out.resp EXCEPT
                            !.scorer = IF out.resp.called THEN so.kind ELSE "none",
                            !.features = out.fv,
                            !.reads = out.reads]
          /\ credit_limits' = out.tbl
          /\ featCache' = out.fc
          /\ mlCache' = out.mc
          /\ cb' = out.cb
          /\ consecFails' = IF ~out.resp.called THEN consecFails
                            ELSE IF ScorerFailed(so) THEN consecFails + 1 ELSE 0
          /\ failedAt' = IF ~out.resp.called THEN failedAt
                         ELSE IF ScorerFailed(so) THEN now ELSE -1
    /\ UNCHANGED <<gateway, now, acceptVars, transactions, emotional_events_summary,
                   ingestVars>>

\* Time passes in the decision service.
ClockPoints == {ResetTimeout, CacheTTL, CacheTTL + ResetTimeout, 2 * CacheTTL}

TickAnalysis(t) ==
    /\ t > now
    /\ t <= MaxClock
    /\ now' = t
    /\ UNCHANGED <<gateway, credit_limits, acceptVars, analysisVars, ingestVars>>

\* Store contents the workers leave behind: transactions (amounts in cents)
\* and daily summaries (averages as rationals).
TxRow(u, a, t) == [user_id |-> u, amount |-> a, created_at |-> t]

Summary(u, d, m, n) ==
    [user_id |-> u, avg_positivity_score |-> m[1], event_count |-> n,
     summary_date |-> d, avg_intensity_score |-> m[2], avg_stress_level |-> m[3]]

\* A summary whose average positivity is p ten-thousandths.
SummaryRow(u, d, p, n) == Summary(u, d, <<Rat(p, 10000), <<1, 2>>, <<1, 2>>>>, n)

InitTransactions ==
    { <<>>, <<TxRow("u1", 12345, 0 - Day), TxRow("u1", 1000, 0 - 31 * Day)>> }

InitSummaries ==
    { {}, {SummaryRow("u1", 0 - Day, 8000, 2), SummaryRow("u1", 0 - 2 * Day, 5000, 1),
           SummaryRow("u1", 0 - 8 * Day, 2000, 3),
           SummaryRow("u2", 0 - 8 * Day, 1000, 4)} }

InitAnalysis ==
    /\ now = 0
    /\ credit_limits = [o \in OfferIds |-> NoRow]
    /\ msgs = <<>>
    /\ handler = [r \in Replicas |-> Idle]
    /\ notifications = [u \in Users |-> 0]
    /\ activations = [o \in OfferIds |-> 0]
    /\ notifiedOffer = [o \in OfferIds |-> 0]
    /\ lastResp = 0
    /\ transactions \in InitTransactions
    /\ emotional_events_summary \in InitSummaries
    /\ featCache = [u \in Users |-> NoEntry]
    /\ mlCache = [u \in Users |-> NoEntry]
    /\ cb = BreakerClosed
    /\ consecFails = 0
    /\ failedAt = -1
    /\ anResp = NoAnalysis
    /\ InitIngest
    /\ gateway = GatewayIdle

NextAnalysis ==
    \/ \E t \in ClockPoints : TickAnalysis(t)
    \/ \E u \in AnalysisUsers, cf \in CacheFaults, so \in ScorerOutcomes, db \in BOOLEAN,
          oid \in OfferIds : analyze_credit(u, cf, so, db, oid)

SpecAnalysis == InitAnalysis /\ [][NextAnalysis]_vars

\* The decision service with fewer scorer answers (an approval, a denial, a
\* timeout) and every cache fault: the analyses the caching claims are about.
CachingOutcomes ==
    {so \in ScorerOutcomes : so.kind = "timeout" \/ so.risk \in {3000, 7500}}

NextCaching ==
    \/ \E t \in ClockPoints : TickAnalysis(t)
    \/ \E u \in AnalysisUsers, cf \in CacheFaults, so \in CachingOutcomes, db \in BOOLEAN,
          oid \in OfferIds : analyze_credit(u, cf, so, db, oid)

SpecCaching == InitAnalysis /\ [][NextCaching]_vars

\* The decision service with a working cache and a scorer that answers, its
\* risk score drawn from a grid over [0, 1] (in ten-thousandths) with the
\* neighbours of the bounds 0 and 0.6: the analyses that compute offer terms.
RiskGrid == {r \in 0..10000 : r % 250 = 0} \cup {1, 1237, 5999, 6001}

NextOffers ==
    \/ \E t \in ClockPoints : TickAnalysis(t)
    \/ \E r \in RiskGrid, db \in BOOLEAN, oid \in OfferIds :
          analyze_credit("u1", CacheFine, [risk |-> r, kind |-> "ok"], db, oid)

SpecOffers == InitAnalysis /\ [][NextOffers]_vars

----------------------------------------------------------------------------
(* emotion-processing-worker and transaction-processing-worker: each        *)
(* subscribes to its subject and runs process_message per delivery, one     *)
(* action per await.                                                        *)

Holding(r) == IF ingest[r].pc = "idle" THEN 0 ELSE 1

RECURSIVE CountMessages(_)
CountMessages(ps) ==
    IF ps = {} THEN 0
    ELSE LET p == CHOOSE x \in ps : TRUE
         IN  events[p].ready + events[p].delayed + events[p].acked
               + events[p].queued + events[p].lost + CountMessages(ps \ {p})

\* Messages ever published on, or accepted for, the two subjects.
Published ==
    CountMessages(EventPool) + Holding("e1") + Holding("e2") + Holding("t1")

\* The ingestion endpoints, or any other publisher, put a payload on a subject.
PublishEvent(p) ==
    /\ Published < MaxEvents
    /\ events' = [events EXCEPT ![p].ready = @ + 1]
    /\ UNCHANGED <<gateway, now, credit_limits, acceptVars, analysisVars, ingest,
                   storeUp, upserts>>

\* json.loads and model_validate; except (JSONDecodeError, ValidationError):
\* the message is acked.
AfterValidate(p) == IF p.kind = "event" THEN "store" ELSE "ack"

\* The broker hands a ready message to a replica subscribed to its subject.
DeliverEvent(r, p) ==
    /\ ingest[r].pc = "idle"
    /\ p.subject = SubjectOf(r)
    /\ events[p].ready > 0
    /\ events' = [events EXCEPT ![p].ready = @ - 1]
    /\ ingest' = [ingest EXCEPT ![r] = [pc |-> AfterValidate(p), ev |-> p]]
    /\ UNCHANGED <<gateway, now, credit_limits, acceptVars, analysisVars, storeUp, upserts>>

MergeAvg_Halfway(avg, n, x) ==
    Rat(avg[1] * x[2] + x[1] * avg[2], avg[2] * x[2] * 2)

\* (avg * event_count + EXCLUDED.avg) / (event_count + 1), on <<n, d>> pairs
MergeAvg(avg, n, x) ==
    Rat(avg[1] * n * x[2] + x[1] * avg[2], avg[2] * x[2] * (n + 1))

MergeCount_Keep(n) == n

MergeCount_Reset(n) == 1

\* event_count = event_count + 1
MergeCount(n) == n + 1

\* strptime(timestamp.split("T")[0], "%Y-%m-%d").date()
summary_date(ts) == ts.date

update_emotional_summary_ByDate(es, ev) ==
    LET d   == summary_date(ev.timestamp)
        old == {r \in es : r.summary_date = d}
    IN  (es \ old) \cup {Summary(ev.user_id, d, ev.metrics, Cardinality(old) + 1)}

update_emotional_summary_Overwrite(es, ev) ==
    LET d   == summary_date(ev.timestamp)
        old == {r \in es : r.user_id = ev.user_id /\ r.summary_date = d}
    IN  (es \ old) \cup {Summary(ev.user_id, d, ev.metrics, 1)}

\* INSERT ... VALUES (.., 1) ON CONFLICT (user_id, summary_date) DO UPDATE
update_emotional_summary(es, ev) ==
    LET d   == summary_date(ev.timestamp)
        old == {r \in es : r.user_id = ev.user_id /\ r.summary_date = d}
    IN  IF old = {} THEN es \cup {Summary(ev.user_id, d, ev.metrics, 1)}
        ELSE LET r == CHOOSE x \in old : TRUE
                 n == r.event_count
                 m == <<MergeAvg(r.avg_positivity_score, n, ev.metrics[1]),
                        MergeAvg(r.avg_intensity_score, n, ev.metrics[2]),
                        MergeAvg(r.avg_stress_level, n, ev.metrics[3])>>
             IN  (es \ old) \cup {Summary(ev.user_id, d, m, MergeCount(n))}

insert_transaction_Dedup(tx, ev, t) ==
    IF \E i \in DOMAIN tx : tx[i].user_id = ev.user_id /\ tx[i].amount = ev.amount
    THEN tx
    ELSE Append(tx, TxRow(ev.user_id, ev.amount, t))

\* INSERT INTO transactions (user_id, amount, created_at) VALUES ($1, $2, NOW())
insert_transaction(tx, ev, t) == Append(tx, TxRow(ev.user_id, ev.amount, t))

\* Emotion worker: async with db_pool.acquire(): update_emotional_summary.
UpsertSummary(r) ==
    /\ ingest[r].pc = "store"
    /\ ingest[r].ev.subject = EmotionSubject
    /\ storeUp
    /\ ingest[r].ev.timestamp.is_date
    /\ emotional_events_summary' =
           update_emotional_summary(emotional_events_summary, ingest[r].ev)
    /\ upserts' = [upserts EXCEPT ![ingest[r].ev] = @ + 1]
    /\ ingest' = [ingest EXCEPT ![r].pc = "ack"]
    /\ UNCHANGED <<gateway, now, credit_limits, acceptVars, transactions, featCache, mlCache,
                   cb, consecFails, failedAt, anResp, events, storeUp>>

\* Transaction worker: async with db_pool.acquire(): insert_transaction.
InsertTransaction(r) ==
    /\ ingest[r].pc = "store"
    /\ ingest[r].ev.subject = TransactionSubject
    /\ storeUp
    /\ transactions' = insert_transaction(transactions, ingest[r].ev, now)
    /\ upserts' = [upserts EXCEPT ![ingest[r].ev] = @ + 1]
    /\ ingest' = [ingest EXCEPT ![r].pc = "ack"]
    /\ UNCHANGED <<gateway, now, credit_limits, acceptVars, emotional_events_summary,
                   featCache, mlCache, cb, consecFails, failedAt, anResp, events,
                   storeUp>>

OnStoreError_Drop == "ack"

\* except Exception: the handler goes on to msg.nak(delay=10).
OnStoreError == "nak"

\* The store write raises: the store is unreachable (acquire or execute
\* raises), or strptime raises ValueError on the emotion event's timestamp.
StoreWriteFails(r) ==
    /\ ingest[r].pc = "store"
    /\ \/ ~storeUp
       \/ ingest[r].ev.subject = EmotionSubject /\ ~ingest[r].ev.timestamp.is_date
    /\ ingest' = [ingest EXCEPT ![r].pc = OnStoreError]
    /\ UNCHANGED <<gateway, now, credit_limits, acceptVars, analysisVars, events, storeUp,
                   upserts>>

\* await msg.ack()
AckEvent(r) ==
    /\ ingest[r].pc = "ack"
    /\ events' = [events EXCEPT ![ingest[r].ev].acked = @ + 1]
    /\ ingest' = [ingest EXCEPT ![r] = IngestIdle]
    /\ UNCHANGED <<gateway, now, credit_limits, acceptVars, analysisVars, storeUp, upserts>>

\* await msg.nak(delay=10): the broker holds the message back for NakDelay s.
NakEvent(r) ==
    /\ ingest[r].pc = "nak"
    /\ events' = [events EXCEPT ![ingest[r].ev].delayed = @ + 1]
    /\ ingest' = [ingest EXCEPT ![r] = IngestIdle]
    /\ UNCHANGED <<gateway, now, credit_limits, acceptVars, analysisVars, storeUp, upserts>>

\* NakDelay seconds pass: the messages held back are due for redelivery.
RedeliveryDue ==
    /\ \E p \in EventPool : events[p].delayed > 0
    /\ events' = [p \in EventPool |->
                     [events[p] EXCEPT !.ready = @ + events[p].delayed,
                                       !.delayed = 0]]
    /\ UNCHANGED <<gateway, now, credit_limits, acceptVars, analysisVars, ingest, storeUp,
                   upserts>>

\* The store goes away and comes back.
StoreFails ==
    /\ storeUp
    /\ storeUp' = FALSE
    /\ UNCHANGED <<gateway, now, credit_limits, acceptVars, analysisVars, events, ingest,
                   upserts>>

StoreRecovers ==
    /\ ~storeUp
    /\ storeUp' = TRUE
    /\ UNCHANGED <<gateway, now, credit_limits, acceptVars, analysisVars, events, ingest,
                   upserts>>

ingest_process_message(r) ==
    \/ \E p \in EventPool : DeliverEvent(r, p)
    \/ UpsertSummary(r)
    \/ InsertTransaction(r)
    \/ StoreWriteFails(r)
    \/ AckEvent(r)
    \/ NakEvent(r)

InitIngestion ==
    /\ now = 0
    /\ credit_limits = [o \in OfferIds |-> NoRow]
    /\ msgs = <<>>
    /\ handler = [r \in Replicas |-> Idle]
    /\ notifications = [u \in Users |-> 0]
    /\ activations = [o \in OfferIds |-> 0]
    /\ notifiedOffer = [o \in OfferIds |-> 0]
    /\ lastResp = 0
    /\ transactions = <<>>
    /\ emotional_events_summary = {}
    /\ featCache = [u \in Users |-> NoEntry]
    /\ mlCache = [u \in Users |-> NoEntry]
    /\ cb = BreakerClosed
    /\ consecFails = 0
    /\ failedAt = -1
    /\ anResp = NoAnalysis
    /\ InitIngest
    /\ gateway = GatewayIdle

NextIngestion ==
    \/ \E p \in EventPool : PublishEvent(p)
    \/ \E r \in IngestReplicas : ingest_process_message(r)
    \/ RedeliveryDue
    \/ StoreFails
    \/ StoreRecovers

SpecIngestion == InitIngestion /\ [][NextIngestion]_vars

\* The payloads that can succeed when processed again: an EmotionEvent whose
\* timestamp names a date, a TransactionEvent.
WellFormed ==
    {p \in EventPool : p.kind = "event" /\
                          (p.subject = EmotionSubject => p.timestamp.is_date)}

\* Scheduling.  The event loop runs every handler task to its next await, and
\* the broker redelivers a held-back message once its delay is over (weak
\* fairness).  message_handler starts one task per delivery, so a ready
\* message is handed over however busy the replicas are with other messages
\* (strong fairness of the delivery of each payload that can be processed).  Nothing is assumed of the
\* publishers or of the store.
HandlerStep(r) ==
    \/ UpsertSummary(r)
    \/ InsertTransaction(r)
    \/ StoreWriteFails(r)
    \/ AckEvent(r)
    \/ NakEvent(r)

FairIngestion ==
    /\ WF_vars(RedeliveryDue)
    /\ \A r \in IngestReplicas : WF_vars(HandlerStep(r))
    /\ \A p \in WellFormed : SF_vars(\E r \in IngestReplicas : DeliverEvent(r, p))

SpecIngestionFair == SpecIngestion /\ FairIngestion

----------------------------------------------------------------------------
(* The ingestion workers when the acknowledgement itself can fail: msg.ack() *)
(* publishes on the message's reply subject and raises when the connection   *)
(* to the broker is gone.                                                    *)

\* Where the exception of a failing msg.ack() goes.  For a valid payload the
\* ack is the last statement of the try body, so `except Exception` takes over
\* and naks.  For a rejected payload the ack is inside the handler of
\* `except (JSONDecodeError, ValidationError)`: no clause of the same try
\* statement covers it and the exception leaves process_message.
OnAckError(p) == IF p.kind = "event" THEN "nak" ELSE "raised"

\* await msg.ack() raises.  A message whose ack fails after its store write is
\* written again when it is redelivered; the model lets the ack fail after
\* the first MaxAckFailures writes of a payload.
AckEventFails(r) ==
    /\ ingest[r].pc = "ack"
    /\ upserts[ingest[r].ev] <= MaxAckFailures
    /\ ingest' = [ingest EXCEPT ![r].pc = OnAckError(ingest[r].ev)]
    /\ UNCHANGED <<gateway, now, credit_limits, acceptVars, analysisVars, events, storeUp,
                   upserts>>

\* The task of process_message ends with the exception: the message is
\* neither acked nor nak'd, the broker redelivers it when its ack wait is over.
TaskEndsRaised(r) ==
    /\ ingest[r].pc = "raised"
    /\ events' = [events EXCEPT ![ingest[r].ev].delayed = @ + 1]
    /\ ingest' = [ingest EXCEPT ![r] = IngestIdle]
    /\ UNCHANGED <<gateway, now, credit_limits, acceptVars, analysisVars, storeUp, upserts>>

\* As NextIngestion, with at most MaxAckEvents messages published.
NextIngestionAcks ==
    \/ \E p \in EventPool : Published < MaxAckEvents /\ PublishEvent(p)
    \/ \E r \in IngestReplicas : ingest_process_message(r)
    \/ RedeliveryDue
    \/ StoreFails
    \/ StoreRecovers
    \/ \E r \in IngestReplicas : AckEventFails(r)
    \/ \E r \in IngestReplicas : TaskEndsRaised(r)

SpecIngestionAcks == InitIngestion /\ [][NextIngestionAcks]_vars

----------------------------------------------------------------------------
(* emotion-ingestion-service and transaction-service: POST /v1/emotions/     *)
(* stream and POST /v1/transactions, in front of the ingestion workers.      *)

\* The request bodies the endpoints accept: EmotionEvent with every metric in
\* [0, 1] and any string as timestamp, TransactionPayload with amount > 0.
InUnit(x) == x[1] >= 0 /\ x[1] <= x[2]

Submittable ==
    {p \in EventPool :
        /\ p.kind = "event"
        /\ p.subject = EmotionSubject => \A i \in 1..3 : InUnit(p.metrics[i])
        /\ p.subject = TransactionSubject => p.amount > 0}

\* The endpoint hands publish_to_nats to the background tasks and answers 202.
IngestAccepted(p) ==
    /\ Published < MaxEvents
    /\ events' = [events EXCEPT ![p].queued = @ + 1]
    /\ UNCHANGED <<gateway, now, credit_limits, acceptVars, analysisVars, ingest,
                   storeUp, upserts>>

\* publish_to_nats after the response: js.publish puts the event on the subject.
BackgroundPublish(p) ==
    /\ events[p].queued > 0
    /\ events' = [events EXCEPT ![p].queued = @ - 1, ![p].ready = @ + 1]
    /\ UNCHANGED <<gateway, now, credit_limits, acceptVars, analysisVars, ingest,
                   storeUp, upserts>>

\* js.publish raises: except Exception logs the error and the task ends.
BackgroundPublishFails(p) ==
    /\ events[p].queued > 0
    /\ events' = [events EXCEPT ![p].queued = @ - 1, ![p].lost = @ + 1]
    /\ UNCHANGED <<gateway, now, credit_limits, acceptVars, analysisVars, ingest,
                   storeUp, upserts>>

publish_to_nats(p) == BackgroundPublish(p) \/ BackgroundPublishFails(p)

NextPipeline ==
    \/ \E p \in Submittable : IngestAccepted(p)
    \/ \E p \in Submittable : publish_to_nats(p)
    \/ \E r \in IngestReplicas : ingest_process_message(r)
    \/ RedeliveryDue
    \/ StoreFails
    \/ StoreRecovers

\* Scheduling of the pipeline: that of the workers; every background task
\* runs; the store's outages end (from some time on it stays up).
FairPipeline ==
    /\ FairIngestion
    /\ \A p \in Submittable : WF_vars(publish_to_nats(p))
    /\ <>[]storeUp

SpecPipeline == InitIngestion /\ [][NextPipeline]_vars /\ FairPipeline

----------------------------------------------------------------------------
(* API gateway: credential checks, routing and forwarding                    *)

\* "bearer" = credentials.scheme.lower()
IsBearer(auth) == auth.scheme \in {"Bearer", "bearer", "BEARER"}

\* jwt.decode(token, SECRET_KEY, algorithms=["HS256"]) returns the payload.
jwt_decode(auth) == auth.form = "jwt" /\ auth.key = SECRET_KEY /\ ~auth.expired

validate_api_key_AnyBearer(auth) == IsBearer(auth)

\* validate_api_key lets the request through (otherwise it raises 401).
validate_api_key(auth) == IsBearer(auth) /\ jwt_decode(auth)

validate_internal_api_key_Present(key) == key # ""

\* validate_internal_api_key lets the request through.
validate_internal_api_key(key) == key # "" /\ key = INTERNAL_SERVICE_API_KEY

\* The route that handles the request: the POST route of the emotion stream,
\* declared first, or the catch-all.
IsEmotionRoute(req) == req.method = "POST" /\ req.path = EmotionPath

\* PATH_TO_SERVICE_MAP: the service of the first prefix the path starts with.
ServiceOf(path) ==
    IF path[1] = "/v1/transactions" THEN "transaction_service"
    ELSE IF path[1] \in {"/v1/users", "/v1/credit-offers"} THEN "user_credit_service"
    ELSE "none"

\* The gateway's answer to a request: its status, and the service the request
\* was forwarded to ("none" when it was not forwarded).
GatewayOutcome(req, down) ==
    LET authorised == IF IsEmotionRoute(req)
                      THEN validate_internal_api_key(req.internal_key)
                      ELSE validate_api_key(req.authorization)
        service == IF IsEmotionRoute(req) THEN "emotion_service"
                   ELSE ServiceOf(req.path)
    IN  IF ~authorised THEN [code |-> 401, to |-> "none"]
        ELSE IF service = "none" THEN [code |-> 404, to |-> "none"]
        ELSE IF down = Unreachable THEN [code |-> 503, to |-> service]
        ELSE [code |-> down, to |-> service]

RECURSIVE SumForwarded(_)
SumForwarded(ss) ==
    IF ss = {} THEN 0
    ELSE LET x == CHOOSE y \in ss : TRUE
         IN  gateway.forwarded[x] + SumForwarded(ss \ {x})

\* One request through the gateway.
gateway_request(req, down) ==
    LET out == GatewayOutcome(req, down)
    IN  /\ out.to # "none" => SumForwarded(Services) < MaxForwards
        /\ gateway' = [code |-> out.code, req |-> req,
                       forwarded |-> IF out.to = "none" THEN gateway.forwarded
                                     ELSE [gateway.forwarded EXCEPT ![out.to] = @ + 1]]
        /\ UNCHANGED <<now, credit_limits, acceptVars, analysisVars, ingestVars>>

NextGateway ==
    \E m \in Methods, path \in GatewayPaths, auth \in Authorizations,
       key \in InternalKeys, down \in Downstream :
        gateway_request(Request(m, path, auth, key), down)

SpecGateway == InitIngestion /\ [][NextGateway]_vars

----------------------------------------------------------------------------

Next ==
    \/ Tick
    \/ \E o \in OfferIds, u \in Users : accept_credit_offer(o, u)
    \/ \E m \in ForeignPayloads : PublishRaw(m)
    \/ \E r \in Replicas : process_message(r)

Spec == Init /\ [][Next]_vars

\* Scheduling of the acceptance path.  Each replica awaits process_message to
\* its end before it takes the next message, so every started handler step is
\* taken (weak fairness of ack and nak); the broker hands every deliverable
\* message to a replica that asks for the next one; time passes.  The store
\* and the bus do not fail for ever: an update or a notification publish that
\* is attempted again and again eventually succeeds (strong fairness).
FairAcceptance ==
    /\ WF_vars(Tick)
    /\ \A r \in Replicas :
          /\ WF_vars(Ack(r))
          /\ WF_vars(Nak(r))
          /\ SF_vars(Activate(r))
          /\ SF_vars(send_activation_notification(r))
    /\ \A i \in 1..MaxMsgs :
          SF_vars(\E r \in Replicas : i \in DOMAIN msgs /\ Deliver(r, i))

SpecFair == Spec /\ FairAcceptance

----------------------------------------------------------------------------
(* Properties of the acceptance path, checked under Spec                    *)

Busy(r) == handler[r].pc # "idle"

HandlerMsg(r) == msgs[handler[r].msg]

IsActive(o) == credit_limits[o] # NoRow /\ credit_limits[o].status = "active"

Owned(o, u) == credit_limits[o] # NoRow /\ credit_limits[o].user_id = u

\* C1: whatever the number of AcceptanceRequests for one offer and however
\* the replicas interleave, exactly one conditional update returns UPDATE 1
\* (the offer becomes active once) and every other one returns UPDATE 0.
C1_ExactlyOneActivation ==
    \A o \in OfferIds :
        /\ activations[o] <= 1
        /\ activations[o] = 1 <=> IsActive(o)
        /\ Cardinality({r \in Replicas : Busy(r) /\ handler[r].rows = 1
                                          /\ HandlerMsg(r).offerId = o}) <= 1
        /\ \A r \in Replicas :
              ( /\ Busy(r)
                /\ handler[r].rows >= 0
                /\ HandlerMsg(r).offerId = o
                /\ Owned(o, HandlerMsg(r).userId) ) => activations[o] = 1

\* Two replicas have both run the update for the same offer of the right user:
\* one got UPDATE 1, the other UPDATE 0.
C1_Witness ==
    \E r1, r2 \in Replicas :
        /\ Busy(r1) /\ Busy(r2)
        /\ handler[r1].rows = 1
        /\ handler[r2].rows = 0
        /\ HandlerMsg(r1).offerId = HandlerMsg(r2).offerId
        /\ HandlerMsg(r1).userId = HandlerMsg(r2).userId

\* C2: an offer whose expires_at has passed never becomes active.
C2_ExpiredNeverActivated ==
    [][\A o \in OfferIds :
          ( /\ credit_limits[o] # NoRow
            /\ credit_limits[o].status = "offered"
            /\ credit_limits'[o].status = "active" )
          => credit_limits[o].expires_at > now]_vars

\* C3: a successful activation is followed by a NotificationEvent: once every
\* AcceptanceRequest of an active offer has been acknowledged (nothing is left
\* to redeliver), a notification for that offer has been published.
C3_ActivationIsNotified ==
    \A o \in OfferIds :
        ( /\ IsActive(o)
          /\ \A i \in 1..Len(msgs) : msgs[i].offerId = o => msgs[i].st = "acked" )
        => notifiedOffer[o] >= 1

\* C4: the notifications published for a user never outnumber that user's
\* active offers, and only a handler whose update affected one row publishes.
C4_NotificationsNeedActivation ==
    /\ [](\A u \in Users :
            notifications[u] <=
                Cardinality({o \in OfferIds : IsActive(o) /\ Owned(o, u)}))
    /\ [][\A u \in Users :
            notifications'[u] # notifications[u] =>
                \E r \in Replicas :
                    /\ Busy(r)
                    /\ handler[r].rows = 1
                    /\ HandlerMsg(r).userId = u
                    /\ handler'[r].pc = "ack"
                    /\ notifications'[u] = notifications[u] + 1]_vars

\* A notification exists while another handler has observed zero rows.
C4_Witness ==
    /\ \E u \in Users : notifications[u] >= 1
    /\ \E r \in Replicas : Busy(r) /\ handler[r].rows = 0

\* C5: every offer's status is offered, active or expired; a status only ever
\* changes from offered to active or from offered to expired.
C5_StatusTransitions ==
    /\ [](\A o \in OfferIds :
            credit_limits[o] # NoRow =>
                credit_limits[o].status \in {"offered", "active", "expired"})
    /\ [][\A o \in OfferIds :
            credit_limits'[o].status # credit_limits[o].status =>
                /\ credit_limits[o].status = "offered"
                /\ credit_limits'[o].status \in {"active", "expired"}]_vars

\* An active offer on which a later handler has run the update in vain.
C5_Witness ==
    \E o \in OfferIds : \E r \in Replicas :
        /\ IsActive(o)
        /\ Busy(r)
        /\ handler[r].rows = 0
        /\ HandlerMsg(r).offerId = o

\* C6: when the handler runs the update for an offer that is already active,
\* or expired, or not owned by the request's user, zero rows are affected, the
\* handler goes on to acknowledge, nothing is published and no row changes.
C6_SettledOfferIsAckedUnchanged ==
    [][\A r \in Replicas :
          ( /\ handler[r].pc = "update"
            /\ handler'[r].pc \notin {"update", "nak"}
            /\ LET row == credit_limits[HandlerMsg(r).offerId]
               IN  /\ row # NoRow
                   /\ \/ row.status = "active"
                      \/ row.expires_at <= now
                      \/ row.user_id # HandlerMsg(r).userId )
          => /\ handler'[r].rows = 0
             /\ handler'[r].pc = "ack"
             /\ credit_limits' = credit_limits
             /\ notifications' = notifications]_vars

\* C7: the accept endpoint leaves every credit_limits row as it was, whatever
\* it answers.
C7_AcceptLeavesStore ==
    [][\A o \in OfferIds, u \in Users :
          accept_credit_offer(o, u) => credit_limits' = credit_limits]_vars

\* The endpoint has answered 202 and the offer it was asked about is still
\* offered, its request waiting on the bus.
C7_Witness ==
    /\ lastResp = 202
    /\ \E i \in 1..Len(msgs) :
          /\ msgs[i].st = "ready"
          /\ Owned(msgs[i].offerId, msgs[i].userId)
          /\ credit_limits[msgs[i].offerId].status = "offered"

\* The offer exists, belongs to the user, is offered and expires after t.
AcceptableAt(o, u, t) ==
    /\ credit_limits[o] # NoRow
    /\ credit_limits[o].user_id = u
    /\ credit_limits[o].status = "offered"
    /\ credit_limits[o].expires_at > t

----------------------------------------------------------------------------
(* Properties of the decision service, checked under SpecAnalysis           *)

NoCache == [u \in Users |-> NoEntry]

\* C9: with an unreachable cache the analysis answers what it would answer
\* with a working, empty cache.
C9_CacheFailureInvisible ==
    [][\A u \in AnalysisUsers, so \in ScorerOutcomes, db \in BOOLEAN, oid \in OfferIds :
          analyze_credit(u, CacheDown, so, db, oid) =>
              LET ref == AnalyzeOutcome(credit_limits, NoCache, NoCache, cb, transactions,
                                        emotional_events_summary, u, CacheFine, so, db,
                                        oid, now).resp
              IN  /\ anResp'.code = ref.code
                  /\ anResp'.approved = ref.approved
                  /\ anResp'.detail = ref.detail]_vars

\* C10: after 5 consecutive failed scorer calls the breaker is open.
C10_OpensAfterFiveFailures ==
    consecFails >= FailMax => cb.state = "open"

\* C11: while the breaker is open and its cool-down runs, an analysis makes no
\* scorer network call.  The breaker is open from the moment FailMax
\* consecutive scorer calls have failed (CircuitBreaker(fail_max=5,
\* reset_timeout=30)); the cool-down runs for ResetTimeout seconds from the
\* latest failure.
C11_NoCallWhileOpen ==
    [][( /\ anResp' # anResp
         /\ consecFails >= FailMax
         /\ now < failedAt + ResetTimeout )
       => ~anResp'.called]_vars

\* A step of SpecAnalysis that is an analysis: the clock stands still.
AnalysisStep == now' = now

Abs(x) == IF x < 0 THEN 0 - x ELSE x

\* c is x / 100 rounded to the nearest integer.
Nearest(c, x) == 2 * Abs(100 * c - x) < 100 \/ (2 * Abs(100 * c - x) = 100 /\ c % 2 = 0)

\* The step stored one new offer for risk score r under the answer's fresh
\* id, answered with that id and the stored terms, and left every other row.
ApprovedWithOffer(r) ==
    /\ anResp'.code = 200
    /\ anResp'.approved
    /\ anResp'.offer \in OfferIds
    /\ LET o == anResp'.offer
           row == credit_limits'[o]
       IN  /\ credit_limits[o] = NoRow
           /\ row # NoRow
           /\ row.user_id = "u1"
           /\ row.status = "offered"
           /\ Nearest(row.credit_limit, Max(1000 * 10000, (10000 - r) * 10000))
           /\ Nearest(row.interest_rate, 50000 + 15 * r)
           /\ row.expires_at = now + 7 * 24 * 60 * 60
           /\ r = 3000 => (row.credit_limit = 700000 /\ row.interest_rate = 950)
           /\ anResp'.credit_limit = row.credit_limit
           /\ anResp'.interest_rate = row.interest_rate
           /\ anResp'.expires_at = row.expires_at
           /\ \A o2 \in OfferIds \ {o} : credit_limits'[o2] = credit_limits[o2]

C14_HighRiskIsDenied ==
    [][(AnalysisStep /\ anResp'.risk > 6000) =>
          /\ anResp'.code = 200
          /\ ~anResp'.approved
          /\ anResp'.detail # ""
          /\ anResp'.offer = ""
          /\ anResp'.credit_limit = -1
          /\ credit_limits' = credit_limits]_vars

\* A denial answered from the cached scorer result while an offer is stored.
C14_Witness ==
    /\ anResp.risk = 7500
    /\ ~anResp.approved
    /\ ~anResp.called
    /\ anResp.code = 200
    /\ \E o \in OfferIds : credit_limits[o] # NoRow

\* The user's rows of the last `days` days at time t.
RecentSummaries(u, t, days) ==
    {r \in emotional_events_summary : r.user_id = u /\ r.summary_date >= t - days * Day}

RecentTransactions(u, t, days) ==
    SelectSeq(transactions, LAMBDA r : r.user_id = u /\ r.created_at >= t - days * Day)

\* The feature vector of user u at time t as the windows are stated: the
\* transactions of 30 days, the positivity of 7 days, the events of 30 days.
StatedFeatures(u, t) ==
    LET txs  == RecentTransactions(u, t, 30)
        pos  == RecentSummaries(u, t, 7)
        evts == RecentSummaries(u, t, 30)
    IN  [transaction_count_30d |-> Len(txs),
         avg_transaction_value_30d |->
             IF Len(txs) = 0 THEN <<0, 1>> ELSE Rat(SumAmount(txs), Len(txs)),
         avg_positivity_7d |->
             IF pos = {} THEN <<1, 2>>
             ELSE RatOver(SumPositivity(pos), Cardinality(pos)),
         stress_events_30d |-> SumEventCount(evts)]

\* C22: the feature vector the analysis assembles from the store (and then
\* caches) holds the count and the average value of the user's transactions
\* of the last 30 days, the average positivity of the last 7 days and the
\* number of the user's events of the last 30 days; without rows the
\* positivity is 0.5 and the counts and the average value are 0.
C22_FeatureWindows ==
    \A u \in AnalysisUsers :
        featCache[u] # NoEntry =>
            featCache[u].val = StatedFeatures(u, featCache[u].exp - CacheTTL)

----------------------------------------------------------------------------
(* Properties of the ingestion workers, checked under SpecIngestion          *)

\* The emotion payloads the worker can merge.
Mergeable == {p \in EmotionPayloads : p.kind = "event" /\ p.timestamp.is_date}

SameKey(p, q) ==
    p.user_id = q.user_id /\ summary_date(p.timestamp) = summary_date(q.timestamp)

RowsOf(es, p) ==
    {r \in es : r.user_id = p.user_id /\ r.summary_date = summary_date(p.timestamp)}

\* event_count of the summary an event belongs to, 0 while there is no row.
CountOf(es, p) ==
    IF RowsOf(es, p) = {} THEN 0 ELSE (CHOOSE r \in RowsOf(es, p) : TRUE).event_count

AvgsOf(es, p) ==
    LET r == CHOOSE x \in RowsOf(es, p) : TRUE
    IN  <<r.avg_positivity_score, r.avg_intensity_score, r.avg_stress_level>>

\* C15: each successful processing of an EmotionEvent raises the event_count
\* of its (user, date) summary by exactly one and makes every average the true
\* average of the values merged so far; N deliveries of one event onto a fresh
\* key leave event_count = N and the event's own values as averages.
C15_DuplicatesCountAndAverage ==
    /\ [][\A p \in Mergeable : upserts'[p] = upserts[p] + 1 =>
              LET n == CountOf(emotional_events_summary, p)
              IN  /\ CountOf(emotional_events_summary', p) = n + 1
                  /\ \A i \in 1..3 :
                        RatTimes(AvgsOf(emotional_events_summary', p)[i], n + 1) =
                          RatAdd(IF n = 0 THEN <<0, 1>>
                                 ELSE RatTimes(AvgsOf(emotional_events_summary, p)[i], n),
                                 p.metrics[i])]_vars
    /\ [](\A p \in Mergeable :
             ( /\ upserts[p] >= 1
               /\ \A q \in Mergeable \ {p} : SameKey(p, q) => upserts[q] = 0 )
             => /\ CountOf(emotional_events_summary, p) = upserts[p]
                /\ AvgsOf(emotional_events_summary, p) = p.metrics)

\* One event was delivered and merged three times onto a fresh key.
C15_Witness ==
    \E p \in Mergeable :
        /\ upserts[p] = 3
        /\ CountOf(emotional_events_summary, p) = 3
        /\ events[p].acked = 3

RECURSIVE MergedCount(_, _)
MergedCount(ps, p) ==
    IF ps = {} THEN 0
    ELSE LET q == CHOOSE x \in ps : TRUE
         IN  (IF SameKey(p, q) THEN upserts[q] ELSE 0) + MergedCount(ps \ {q}, p)

RECURSIVE MergedSum(_, _, _)
MergedSum(ps, p, i) ==
    IF ps = {} THEN <<0, 1>>
    ELSE LET q == CHOOSE x \in ps : TRUE
         IN  RatAdd(IF SameKey(p, q) THEN RatTimes(q.metrics[i], upserts[q])
                    ELSE <<0, 1>>,
                    MergedSum(ps \ {q}, p, i))

\* C16: no merge is lost, however the handlers interleave: for every key the
\* event_count is the number of upserts executed for it and every average is
\* the mean of all the values merged.
C16_NoLostUpdate ==
    \A p \in Mergeable :
        LET n == MergedCount(Mergeable, p)
        IN  /\ CountOf(emotional_events_summary, p) = n
            /\ n >= 1 => \A i \in 1..3 :
                  AvgsOf(emotional_events_summary, p)[i] =
                      RatOver(MergedSum(Mergeable, p, i), n)

\* Both emotion replicas have executed their upsert for the same key and
\* neither has acknowledged yet.
C16_Witness ==
    /\ ingest["e1"].pc = "ack"
    /\ ingest["e2"].pc = "ack"
    /\ ingest["e1"].ev \in Mergeable
    /\ ingest["e2"].ev \in Mergeable
    /\ ingest["e1"].ev # ingest["e2"].ev
    /\ SameKey(ingest["e1"].ev, ingest["e2"].ev)
    /\ CountOf(emotional_events_summary, ingest["e1"].ev) >= 2

\* The table after merging cnt[p] copies of every payload p of ps into es,
\* payload by payload in one fixed order.
RECURSIVE MergeInFixedOrder(_, _, _)
MergeInFixedOrder(es, ps, cnt) ==
    IF ps = {} THEN es
    ELSE LET p == CHOOSE x \in ps : TRUE
         IN  IF cnt[p] = 0 THEN MergeInFixedOrder(es, ps \ {p}, cnt)
             ELSE MergeInFixedOrder(update_emotional_summary(es, p), ps,
                                    [cnt EXCEPT ![p] = @ - 1])

\* C17: the summaries depend on the multiset of events merged, not on the
\* order of their delivery: whatever order the handlers merged them in, the
\* table is the one that merging the same multiset in one fixed order gives.
C17_OrderIndependent ==
    emotional_events_summary = MergeInFixedOrder({}, Mergeable, upserts)

\* Three events of one key, not all alike, have been merged.
C17_Witness ==
    \E p, q \in Mergeable :
        /\ p # q
        /\ SameKey(p, q)
        /\ upserts[p] = 2
        /\ upserts[q] = 1

\* C18: the emotion worker acknowledges, and never negatively acknowledges, a
\* message whose payload can never be processed; no summary changes for it.
C18_MalformedEmotionIsAcked ==
    /\ \A r \in {"e1", "e2"} : ingest[r].pc = "nak" => ingest[r].ev \in WellFormed
    /\ \A p \in EmotionPayloads \ WellFormed : events[p].delayed = 0 /\ upserts[p] = 0

\* C19: the acceptance worker acknowledges a message whose payload is malformed
\* JSON or violates the schema; it never negatively acknowledges it, so the
\* message is never redelivered.
C19_MalformedAcceptanceIsAcked ==
    /\ \A r \in Replicas :
          (Busy(r) /\ ~HandlerMsg(r).wf) => handler[r].pc = "ack"
    /\ \A i \in 1..Len(msgs) : ~msgs[i].wf => msgs[i].notBefore = 0

\* Messages of payload p that are not yet acknowledged.
Pending(p) ==
    events[p].ready + events[p].delayed +
        Cardinality({r \in IngestReplicas : ingest[r].pc # "idle" /\ ingest[r].ev = p})

\* Every held-back message has become due for redelivery again.
NoneHeldBack == \A p \in EventPool : events[p].delayed = 0

\* Every well-formed message published so far is persisted and acknowledged.
AllPersisted ==
    \A p \in WellFormed : Pending(p) = 0 /\ events[p].acked = upserts[p]

\* C20: a well-formed event whose store write is attempted while the store is
\* unavailable is negatively acknowledged, held back for the nak delay and not
\* acknowledged; nothing is acknowledged before it is persisted; held-back
\* messages become due for redelivery again and again; and unless the store
\* keeps going away, every well-formed message is eventually persisted and
\* acknowledged.
C20_RetriedUntilPersisted ==
    /\ [][\A r \in IngestReplicas :
              ( /\ ingest[r].ev \in WellFormed
                /\ ingest[r].pc = "store"
                /\ ~storeUp
                /\ ingest'[r].pc # "store" )
              => /\ ingest'[r].pc = "nak"
                 /\ upserts' = upserts
                 /\ events' = events]_vars
    /\ [][\A r \in IngestReplicas :
              (ingest[r].pc = "nak" /\ ingest'[r].pc = "idle") =>
                  /\ events'[ingest[r].ev].delayed = events[ingest[r].ev].delayed + 1
                  /\ events'[ingest[r].ev].acked = events[ingest[r].ev].acked
                  /\ events'[ingest[r].ev].ready = events[ingest[r].ev].ready]_vars
    /\ [](\A p \in WellFormed : events[p].acked <= upserts[p])
    /\ []<>NoneHeldBack
    /\ []<>(~storeUp \/ AllPersisted)

\* A well-formed emotion event and a transaction have both been negatively
\* acknowledged while the store was away and are held back; the store is back.
C20_Witness ==
    /\ storeUp
    /\ \E p \in WellFormed : events[p].delayed >= 1 /\ p.subject = EmotionSubject
    /\ \E p \in WellFormed : events[p].delayed >= 1 /\ p.subject = TransactionSubject

----------------------------------------------------------------------------
(* Properties of the handlers under failing acknowledgements, checked under  *)
(* SpecIngestionAcks                                                         *)

\* C21: every execution of process_message ends with the message acked or
\* nak'd and no exception leaves the handler, whatever the payload and
\* whatever fails (the store, the notification publish, the ack call): a
\* handler leaves its message only by an ack or a nak, and never ends raised.
C21_HandlerAlwaysResolves ==
    /\ [](\A r \in IngestReplicas : ingest[r].pc # "raised")
    /\ [][\A r \in IngestReplicas :
              (ingest[r].pc # "idle" /\ ingest'[r].pc = "idle") =>
                  LET p == ingest[r].ev
                  IN  \/ ingest[r].pc = "ack" /\ events'[p].acked = events[p].acked + 1
                      \/ ingest[r].pc = "nak" /\ events'[p].delayed = events[p].delayed + 1]_vars

----------------------------------------------------------------------------
(* Properties of the acceptance path under fair scheduling, checked under    *)
(* SpecFair                                                                  *)

\* The accept endpoint has answered 202 for offer o: a request naming the
\* offer and its owner is on the bus.
Accepted(o) ==
    \E i \in 1..Len(msgs) :
        msgs[i].wf /\ msgs[i].offerId = o /\ Owned(o, msgs[i].userId)

\* A request for offer o is held back until after the last instant of the
\* model's clock.
HeldPastHorizon(o) ==
    \E i \in 1..Len(msgs) :
        msgs[i].offerId = o /\ msgs[i].st = "ready" /\ msgs[i].notBefore > MaxNow

\* C23: after the accept endpoint answered 202 for an offer, the offer
\* eventually becomes active and a notification for it is eventually
\* published; whenever a notification for an offer exists, the offer is active.
C23_AcceptedIsActivatedAndNotified ==
    /\ \A o \in OfferIds :
          Accepted(o) ~> ((IsActive(o) /\ notifiedOffer[o] >= 1) \/ HeldPastHorizon(o))
    /\ [](\A o \in OfferIds : notifiedOffer[o] >= 1 => IsActive(o))

----------------------------------------------------------------------------
(* Properties of the ingestion pipeline, checked under SpecPipeline          *)

\* A row of the payload's user is stored: a summary with event_count > 0 for
\* an emotion event, a transaction with the submitted amount for a transaction.
PersistedFor(p) ==
    IF p.subject = EmotionSubject
    THEN \E r \in emotional_events_summary : r.user_id = p.user_id /\ r.event_count > 0
    ELSE \E i \in 1..Len(transactions) :
            transactions[i].user_id = p.user_id /\ transactions[i].amount = p.amount

\* C24: after an ingestion endpoint answered 202 for an emotion event or a
\* transaction, the workers eventually persist it.
C24_AcceptedIsPersisted ==
    \A p \in Submittable : (events[p].queued > 0) ~> PersistedFor(p)

----------------------------------------------------------------------------
(* Properties of the API gateway, checked under SpecGateway                  *)

\* The credential a user route asks for is missing or wrong.
BadUserCredential(req) ==
    ~( /\ req.authorization.scheme \in {"Bearer", "bearer"}
       /\ req.authorization.form = "jwt"
       /\ req.authorization.key = "SECRET_KEY"
       /\ ~req.authorization.expired )

BadInternalKey(req) == req.internal_key # "INTERNAL_SERVICE_API_KEY"

UserPaths == {<<"/v1/transactions">>, <<"/v1/users", "/u1/credit-analysis">>}

\* The gateway answered 401 to the request of this step and forwarded nothing.
Refused == gateway'.code = 401 /\ gateway'.forwarded = gateway.forwarded

----------------------------------------------------------------------------
(* Further properties of the acceptance path, checked under Spec             *)

\* C26: a failed or lost notification never rolls the activation back: once
\* an offer is active, no step (publish failure, nak, redelivery, a later
\* update) changes its row.
C26_ActivationIsKept ==
    [][\A o \in OfferIds : IsActive(o) => credit_limits'[o] = credit_limits[o]]_vars

\* The notification of an activated offer failed, its request was nak'd and
\* delivered again, and the second update ran in vain: the offer is active
\* and no notification exists.
C26_Witness ==
    \E o \in OfferIds : \E r \in Replicas :
        /\ IsActive(o)
        /\ notifiedOffer[o] = 0
        /\ handler[r].pc = "ack"
        /\ handler[r].rows = 0
        /\ HandlerMsg(r).offerId = o
        /\ Owned(o, HandlerMsg(r).userId)
        /\ \A i \in 1..Len(msgs) : msgs[i].offerId = o => i = handler[r].msg

\* C27: an offer is activated only by an AcceptanceRequest whose userId is the
\* offer's owner: the update run for a message that names an offer of another
\* user affects zero rows and leaves the table as it was, and every step that
\* makes an offer active is the update of a handler whose message carries the
\* owner's userId.
C27_OnlyOwnerActivates ==
    /\ [][\A r \in Replicas :
              ( /\ handler[r].pc = "update"
                /\ handler'[r].rows >= 0
                /\ credit_limits[HandlerMsg(r).offerId] # NoRow
                /\ credit_limits[HandlerMsg(r).offerId].user_id # HandlerMsg(r).userId )
              => /\ handler'[r].rows = 0
                 /\ credit_limits' = credit_limits
                 /\ activations' = activations]_vars
    /\ [][\A o \in OfferIds :
              (~IsActive(o) /\ credit_limits'[o].status = "active") =>
                  \E r \in Replicas :
                      /\ handler[r].pc = "update"
                      /\ handler'[r].rows = 1
                      /\ HandlerMsg(r).offerId = o
                      /\ HandlerMsg(r).userId = credit_limits[o].user_id]_vars

\* A handler has run the update for a request of u2 naming the offer of u1,
\* which is still offered.
C27_Witness ==
    \E r \in Replicas :
        /\ Busy(r)
        /\ handler[r].rows = 0
        /\ HandlerMsg(r).offerId = "o1"
        /\ HandlerMsg(r).userId = "u2"
        /\ credit_limits["o1"].status = "offered"
        /\ credit_limits["o1"].user_id = "u1"

\* C28: however often the AcceptanceRequests of one offer are delivered and
\* redelivered, to whichever replicas and whichever publishes fail, at most
\* one notification is ever published for that offer.
C28_AtMostOneNotification ==
    \A o \in OfferIds : notifiedOffer[o] <= 1

\* Two requests for one offer were handled by the two replicas: one update
\* returned UPDATE 1 and its notification is published, the other replica
\* holds the second request after UPDATE 0.
C28_Witness ==
    \E o \in OfferIds : \E r \in Replicas :
        /\ notifiedOffer[o] = 1
        /\ handler[r].pc = "ack"
        /\ handler[r].rows = 0
        /\ HandlerMsg(r).offerId = o
        /\ Owned(o, HandlerMsg(r).userId)
        /\ \E i \in 1..Len(msgs) :
              i # handler[r].msg /\ msgs[i].offerId = o /\ msgs[i].st \in {"acked", "inflight"}

----------------------------------------------------------------------------
(* Further properties of the ingestion workers, checked under SpecIngestion  *)

\* C29: every summary row has event_count >= 1 and no event_count ever
\* decreases: the first event of a (user, date) creates the row with the
\* event's three metrics as averages and event_count = 1, every later merge
\* raises the event_count by exactly 1, and rows of other keys stay as they are.
C29_CountStartsAtOneAndGrows ==
    /\ [](\A r \in emotional_events_summary : r.event_count >= 1)
    /\ [][\A p \in Mergeable :
              CountOf(emotional_events_summary', p) >= CountOf(emotional_events_summary, p)]_vars
    /\ [][\A p \in Mergeable : upserts'[p] = upserts[p] + 1 =>
              /\ IF RowsOf(emotional_events_summary, p) = {}
                 THEN RowsOf(emotional_events_summary', p) =
                        {[user_id |-> p.user_id, avg_positivity_score |-> p.metrics[1],
                          event_count |-> 1,
                          summary_date |-> p.timestamp.date,
                          avg_intensity_score |-> p.metrics[2],
                          avg_stress_level |-> p.metrics[3]]}
                 ELSE CountOf(emotional_events_summary', p) =
                        CountOf(emotional_events_summary, p) + 1
              /\ \A q \in Mergeable :
                    ~SameKey(p, q) => RowsOf(emotional_events_summary', q) =
                                        RowsOf(emotional_events_summary, q)]_vars

\* Summaries of two dates exist, one of them merged from two events.
C29_Witness ==
    \E r1, r2 \in emotional_events_summary :
        /\ r1.summary_date # r2.summary_date
        /\ r1.event_count = 2
        /\ r2.event_count = 1

\* The rational x = <<n, d>> lies within [0, 1].
WithinUnit(x) == 0 <= x[1] /\ x[1] <= x[2]

\* C30: every event the worker merges has its three metrics within [0, 1],
\* so every average of every summary row lies within [0, 1], whatever is
\* published on user.emotions.topic.
C30_AveragesWithinUnit ==
    /\ \A r \in {"e1", "e2"} :
          ingest[r].pc = "store" => \A i \in 1..3 : WithinUnit(ingest[r].ev.metrics[i])
    /\ \A r \in emotional_events_summary :
          /\ WithinUnit(r.avg_positivity_score)
          /\ WithinUnit(r.avg_intensity_score)
          /\ WithinUnit(r.avg_stress_level)

\* C31: every row the transaction worker has inserted into transactions has
\* a strictly positive amount, and so has every event it is about to insert,
\* whatever is published on transactions.topic.
C31_AmountsArePositive ==
    /\ ingest["t1"].pc = "store" => ingest["t1"].ev.amount > 0
    /\ \A i \in DOMAIN transactions : transactions[i].amount > 0

TransactionEvents == {p \in TransactionPayloads : p.kind = "event"}

\* The rows of transactions that carry the event p.
TxRowsOf(tx, p) ==
    {i \in DOMAIN tx : tx[i].user_id = p.user_id /\ tx[i].amount = p.amount}

\* Deliveries of p whose insert has succeeded: those acked, and the one the
\* handler holds between its insert and its ack.
Inserted(p) ==
    events[p].acked + (IF ingest["t1"].pc = "ack" /\ ingest["t1"].ev = p THEN 1 ELSE 0)

\* C32: transactions is append-only and not de-duplicated: the table holds
\* one row per successfully processed delivery of a TransactionEvent (N
\* deliveries of one event give N rows), a step of the worker leaves the table
\* as it is or appends exactly one row, the handled event's, and no existing
\* row is ever modified or deleted.
C32_AppendOnly ==
    /\ [](\A p \in TransactionEvents :
             Cardinality(TxRowsOf(transactions, p)) = Inserted(p))
    /\ [][\/ transactions' = transactions
          \/ /\ ingest["t1"].pc = "store"
             /\ transactions' =
                    Append(transactions,
                           TxRow(ingest["t1"].ev.user_id, ingest["t1"].ev.amount, now))]_vars
    /\ [][/\ Len(transactions') >= Len(transactions)
          /\ SubSeq(transactions', 1, Len(transactions)) = transactions]_vars

\* One event has been delivered and acked twice, and the table holds two
\* rows of it.
C32_Witness ==
    \E p \in TransactionEvents :
        /\ events[p].acked = 2
        /\ Cardinality(TxRowsOf(transactions, p)) = 2

\* The summary rows whose key is not (user of ev, date of ev's timestamp).
OtherRows(es, ev) ==
    {x \in es : ~(x.user_id = ev.user_id /\ x.summary_date = summary_date(ev.timestamp))}

\* The event a replica's step is about: the one delivered, or the one held.
StepEvent(r) == IF ingest[r].pc = "idle" THEN ingest'[r].ev ELSE ingest[r].ev

\* C33: a step of the emotion worker that processes an event changes at most
\* the summary row keyed by (the event's user, the date of its timestamp):
\* the rows of every other user or date, the transactions and the offers are
\* as before.
C33_OnlyItsOwnRow ==
    [][\A r \in {"e1", "e2"} : ingest'[r] # ingest[r] =>
          /\ OtherRows(emotional_events_summary', StepEvent(r)) =
                OtherRows(emotional_events_summary, StepEvent(r))
          /\ transactions' = transactions
          /\ credit_limits' = credit_limits]_vars

\* A replica has just merged an event while the table holds a row of another
\* user and a row of the same user on another date.
C33_Witness ==
    \E r \in {"e1", "e2"} :
        /\ ingest[r].pc = "ack"
        /\ ingest[r].ev.kind = "event"
        /\ \E x \in emotional_events_summary : x.user_id # ingest[r].ev.user_id
        /\ \E x \in emotional_events_summary :
              /\ x.user_id = ingest[r].ev.user_id
              /\ x.summary_date # summary_date(ingest[r].ev.timestamp)

----------------------------------------------------------------------------
(* Properties of the caches of the decision service, checked under          *)
(* SpecCaching                                                              *)

\* The cache fails in the get or in the set of user_features:{user_id} only.
\* The set is reached, and so can raise, after a miss.
FeatureFaults == {cf \in CacheFaults : (cf.getF \/ cf.setF) /\ ~cf.getM /\ ~cf.setM}

\* C34: when the get or the set of the feature cache raises and the store is
\* reachable, the analysis reads the feature vector from the store, goes on
\* to scoring with exactly that vector, and answers as it answers on a plain
\* miss of a working cache.
C34_CacheErrorFallsBackToStore ==
    [][\A cf \in FeatureFaults, so \in CachingOutcomes, oid \in OfferIds :
          ( /\ cf.getF \/ ~CacheHit(featCache, "u1", now)
            /\ analyze_credit("u1", cf, so, TRUE, oid) ) =>
              LET ref == AnalyzeOutcome(credit_limits, NoCache, mlCache, cb, transactions,
                                        emotional_events_summary, "u1", CacheFine, so, TRUE,
                                        oid, now).resp
              IN  /\ anResp'.reads >= 1
                  /\ anResp'.features =
                        get_user_features(transactions, emotional_events_summary, "u1", now)
                  /\ anResp'.code = ref.code
                  /\ anResp'.detail = ref.detail
                  /\ anResp'.approved = ref.approved
                  /\ anResp'.risk = ref.risk
                  /\ anResp'.called = ref.called]_vars

\* The set of the feature cache raised after a miss (the store was read at
\* line 38 and again at line 43), and the analysis went on to an approval
\* with the store's vector.
C34_Witness ==
    /\ anResp.reads = 2
    /\ anResp.approved
    /\ anResp.features # NoFeatures
    /\ anResp.features.transaction_count_30d = 1

\* The cache is reachable for the get and the set of user_features:{user_id}.
FeatureCacheFine == {cf \in CacheFaults : ~cf.getF /\ ~cf.setF}

\* C35: after a miss of the feature cache, with the cache reachable, the
\* vector read from the store is cached for CacheTTL = 300 s from now; an
\* analysis within the TTL takes the cached vector and does not read the
\* store for features (it gets past feature assembly even when the store is
\* unreachable); every cached vector is the one read from the store when it
\* was written, and none is served 300 s or more after that (the entry is
\* gone once its TTL has passed).
C35_FeaturesCachedForTTL ==
    /\ [][\A cf \in FeatureCacheFine, so \in CachingOutcomes, oid \in OfferIds :
             ( /\ ~CacheHit(featCache, "u1", now)
               /\ analyze_credit("u1", cf, so, TRUE, oid) ) =>
                 /\ anResp'.reads = 1
                 /\ featCache'["u1"] =
                       [exp |-> now + 300,
                        val |-> get_user_features(transactions, emotional_events_summary,
                                                  "u1", now)]]_vars
    /\ [][\A cf \in FeatureCacheFine, so \in CachingOutcomes, db \in BOOLEAN,
            oid \in OfferIds :
             ( /\ featCache["u1"] # NoEntry
               /\ now < featCache["u1"].exp
               /\ analyze_credit("u1", cf, so, db, oid) ) =>
                 /\ anResp'.reads = 0
                 /\ anResp'.features = featCache["u1"].val
                 /\ featCache' = featCache]_vars
    /\ [](featCache["u1"] # NoEntry =>
            /\ featCache["u1"].exp - 300 <= now
            /\ featCache["u1"].val =
                  get_user_features(transactions, emotional_events_summary, "u1",
                                    featCache["u1"].exp - 300))
    /\ [][( /\ AnalysisStep
            /\ anResp'.reads = 0
            /\ anResp'.features # NoFeatures ) =>
              /\ featCache["u1"] # NoEntry
              /\ anResp'.features = featCache["u1"].val
              /\ now - (featCache["u1"].exp - 300) < 300]_vars

\* 30 s after an analysis cached the vector, an analysis was answered with
\* the cached vector and no store read.
C35_Witness ==
    /\ now = ResetTimeout
    /\ featCache["u1"] # NoEntry
    /\ featCache["u1"].exp = CacheTTL
    /\ anResp.reads = 0
    /\ anResp.features = featCache["u1"].val
    /\ anResp.features.transaction_count_30d = 1
    /\ anResp.code = 200

\* The breaker as it is when open at time t, its cool-down running.
OpenBreaker(t) == [state |-> "open", counter |-> 5, opened_at |-> t]

\* C36: scoring is cache-aside.  With a cached scorer result for the user
\* the analysis takes that result, makes no scorer call and leaves the
\* breaker alone; it would do so with the breaker open.  The scorer is
\* called only on a miss, and only when the breaker lets the call through;
\* when the scorer answers and the cache takes the write, the answer is
\* cached for 300 s.
C36_ScoringIsCacheAside ==
    /\ [][\A cf \in {x \in CacheFaults : ~x.getM}, so \in CachingOutcomes, db \in BOOLEAN,
            oid \in OfferIds :
             ( /\ CacheHit(mlCache, "u1", now)
               /\ analyze_credit("u1", cf, so, db, oid)
               /\ anResp'.features # NoFeatures ) =>
                 /\ ~anResp'.called
                 /\ anResp'.risk = mlCache["u1"].val
                 /\ anResp'.code \in {200, 500}
                 /\ cb' = cb
                 /\ mlCache' = mlCache]_vars
    /\ [](\A cf \in {x \in CacheFaults : ~x.getM}, so \in CachingOutcomes :
             CacheHit(mlCache, "u1", now) =>
                 LET m == ScoreStep(mlCache, OpenBreaker(now), "u1", cf, so, now)
                 IN  /\ m.kind = "score"
                     /\ m.risk = mlCache["u1"].val
                     /\ ~m.called
                     /\ m.cb = OpenBreaker(now))
    /\ [][(AnalysisStep /\ anResp'.called) =>
              /\ ~CacheHit(mlCache, "u1", now)
              /\ ~BreakerRejects(cb, now)]_vars
    /\ [][\A cf \in {x \in CacheFaults : ~x.getM /\ ~x.setM}, so \in CachingOutcomes,
            db \in BOOLEAN, oid \in OfferIds :
             ( /\ ~CacheHit(mlCache, "u1", now)
               /\ so.kind = "ok"
               /\ analyze_credit("u1", cf, so, db, oid)
               /\ anResp'.features # NoFeatures ) =>
                 /\ anResp'.called
                 /\ anResp'.risk = so.risk
                 /\ mlCache'["u1"] = [exp |-> now + 300, val |-> so.risk]]_vars

\* 30 s after a scorer answer was cached, an analysis approved from the
\* cached answer without a scorer call.
C36_Witness ==
    /\ now = ResetTimeout
    /\ mlCache["u1"] # NoEntry
    /\ mlCache["u1"].exp = CacheTTL
    /\ mlCache["u1"].val = 3000
    /\ ~anResp.called
    /\ anResp.approved
    /\ anResp.risk = 3000

\* What fails during an analysis of u1 with the faults cf, the scorer outcome
\* so and the store reachable or not (db), by the operations the handler
\* reaches: the feature cache (its get, or its set after a miss), the store
\* (the read of the features, the insert of the offer), the cache of scorer
\* results (its get, or its set after an answered call), the scorer.
FeatureCacheFails(cf, db) ==
    cf.getF \/ (~CacheHit(featCache, "u1", now) /\ db /\ cf.setF)

FeatureReadFails(cf, db) ==
    (cf.getF \/ ~CacheHit(featCache, "u1", now)) /\ ~db

ScorerIsCalled(cf, db) ==
    /\ ~FeatureReadFails(cf, db)
    /\ ~cf.getM
    /\ ~CacheHit(mlCache, "u1", now)
    /\ ~BreakerRejects(cb, now)

ScoringFails(cf, so, db) ==
    /\ ~FeatureReadFails(cf, db)
    /\ \/ cf.getM
       \/ ScorerIsCalled(cf, db) /\ (ScorerFailed(so) \/ cf.setM)

\* The risk score the analysis obtains when nothing before line 69 fails.
ObtainedRisk(cf, so, db) ==
    IF ScorerIsCalled(cf, db) THEN so.risk ELSE mlCache["u1"].val

InsertFails(cf, so, db) ==
    /\ ~FeatureReadFails(cf, db)
    /\ ~ScoringFails(cf, so, db)
    /\ ~BreakerRejects(cb, now)
    /\ ObtainedRisk(cf, so, db) <= 6000
    /\ ~db

\* The answer is an approval or a denial computed from the risk score the
\* scorer returned in this call or, on a hit, from the cached one.
FromScorer(cf, so, db) ==
    anResp'.code = 200 =>
        /\ anResp'.risk \in Scores
        /\ anResp'.risk = ObtainedRisk(cf, so, db)
        /\ anResp'.called => so.kind = "ok"
        /\ ~anResp'.called => CacheHit(mlCache, "u1", now)
        /\ anResp'.approved <=> anResp'.risk <= 6000

\* A 5xx answer that carries no decision, with no offer persisted.
ErrorSignal ==
    /\ anResp'.code \in {500, 503}
    /\ ~anResp'.approved
    /\ anResp'.offer = ""
    /\ credit_limits' = credit_limits

----------------------------------------------------------------------------
(* Further properties of the decision service, checked under SpecAnalysis    *)

\* C37: a scorer call that runs into the client's 5 s timeout is counted by
\* the breaker as a failure: the breaker's counter grows by one or the
\* breaker opens, and after FailMax = 5 consecutive failed calls, the last
\* of them a timeout, the breaker is open.
C37_TimeoutCountsAsFailure ==
    [][(AnalysisStep /\ anResp'.called /\ anResp'.scorer = "timeout") =>
          /\ cb'.counter = cb.counter + 1 \/ cb'.state = "open"
          /\ consecFails' >= 5 => cb'.state = "open"]_vars

\* C39: every analysis whose risk score r has 0 <= r <= 0.6 and whose insert
\* succeeds is approved (r = 0.6 included) and persists an offer with
\* 4000 <= credit_limit <= 10000 and 5.0 <= interest_rate <= 14.0, its
\* credit_limit being round((1 - r) * 10000, 2), above the floor 1000; so
\* every persisted offer has its terms within these ranges.
C39_ApprovedTermsInRange ==
    /\ [][(AnalysisStep /\ anResp'.code = 200 /\ anResp'.risk >= 0
             /\ anResp'.risk <= 6000) =>
              /\ anResp'.approved
              /\ anResp'.offer \in OfferIds
              /\ LET row == credit_limits'[anResp'.offer]
                 IN  /\ row # NoRow
                     /\ 4000 * 100 <= row.credit_limit
                     /\ row.credit_limit <= 10000 * 100
                     /\ 500 <= row.interest_rate
                     /\ row.interest_rate <= 1400
                     /\ row.credit_limit = (10000 - anResp'.risk) * 100
                     /\ row.credit_limit > 1000 * 100]_vars
    /\ [](\A o \in OfferIds : credit_limits[o] # NoRow =>
             /\ 4000 * 100 <= credit_limits[o].credit_limit
             /\ credit_limits[o].credit_limit <= 10000 * 100
             /\ 500 <= credit_limits[o].interest_rate
             /\ credit_limits[o].interest_rate <= 1400)

\* Offers for the two ends of the range are persisted: r = 0 with limit
\* 10000 and rate 5.0, and r = 0.6 with limit 4000 and rate 14.0.
C39_Witness ==
    /\ credit_limits["o1"] # NoRow
    /\ credit_limits["o2"] # NoRow
    /\ credit_limits["o1"].credit_limit = 1000000
    /\ credit_limits["o1"].interest_rate = 500
    /\ credit_limits["o2"].credit_limit = 400000
    /\ credit_limits["o2"].interest_rate = 1400
    /\ anResp.risk = 6000
    /\ anResp.approved

====
